---------------------------- MODULE Spec2Model ----------------------------
(***************************************************************************)
(* REGO600 / REGO635 MQTT bridge (rego600_MQTT.py).                        *)
(*                                                                         *)
(* The module models                                                       *)
(*   - the frame codec (pure functions over byte sequences),               *)
(*   - the register access layer (read_register and the write commands),   *)
(*   - the three threads of monitor_loop (main loop, display_monitor, the  *)
(*     MQTT client's network thread running the callbacks) sharing         *)
(*     serial_lock and the serial channel,                                 *)
(*   - the availability topic, and                                         *)
(*   - the cadences and the energy integration of the main loop.           *)
(*                                                                         *)
(* Bytes are naturals 0..255, byte strings are sequences of bytes (Python  *)
(* index i is TLA+ index i+1).  Time is counted in ticks of 100 ms, the    *)
(* idle sleep of the main loop.                                            *)
(***************************************************************************)
EXTENDS Integers, Sequences, FiniteSets, TLC

(***************************************************************************)
(* Program constants                                                       *)
(***************************************************************************)
PUMP_ADDRESS == 129
PC_ADDRESS == 1

READ_FRONT_PANEL == 0
WRITE_FRONT_PANEL == 1
READ_SYSTEM_REGISTER == 2
WRITE_SYSTEM_REGISTER == 3
READ_DISPLAY == 32

\* HEARTBEAT_INTERVAL = 30 and monitor_loop's interval = 15.0 (seconds)
HEARTBEAT_INTERVAL == 30
SWEEP_INTERVAL == 15

\* expected_length passed by read_sensor / read_led_state / read_setting
REG_RESPONSE_LEN == 5
\* expected_length passed by read_display_line
DISPLAY_RESPONSE_LEN == 42

(***************************************************************************)
(* Bit operations on naturals                                              *)
(***************************************************************************)
RECURSIVE BitXor(_, _)
BitXor(a, b) ==
    IF a = 0 THEN b
    ELSE IF b = 0 THEN a
    ELSE (((a % 2) + (b % 2)) % 2) + 2 * BitXor(a \div 2, b \div 2)

RECURSIVE BitAnd(_, _)
BitAnd(a, b) ==
    IF a = 0 \/ b = 0 THEN 0
    ELSE ((a % 2) * (b % 2)) + 2 * BitAnd(a \div 2, b \div 2)

(***************************************************************************)
(* Frame codec                                                             *)
(***************************************************************************)
\* checksum = XOR of packet[2:8] (TLA+ positions 3..8)
RECURSIVE XorFold(_, _, _)
XorFold(packet, i, hi) ==
    IF i > hi \/ i > Len(packet) THEN 0
    ELSE BitXor(packet[i], XorFold(packet, i + 1, hi))

\* a checksum that takes the command byte in
ChecksumWithCommand(packet) == XorFold(packet, 2, 8)

calculate_checksum(packet) == XorFold(packet, 3, 8)

\* a split whose middle group keeps six bits
EncodeSixBits(reg_addr) ==
    << (reg_addr \div 16384) % 4, (reg_addr \div 128) % 64, reg_addr % 128 >>

\* (reg & 0xC000) >> 14, (reg & 0x3F80) >> 7, reg & 0x007F
encode_register(reg_addr) ==
    << (reg_addr \div 16384) % 4, (reg_addr \div 128) % 128, reg_addr % 128 >>

build_request(address, command, register) ==
    LET packet == << address, command >> \o encode_register(register) \o << 0, 0, 0 >>
    IN  Append(packet, calculate_checksum(packet))

\* The decoders raise ValueError on malformed input: Raised is that outcome.
Raised == [raised |-> TRUE]
Returned(v) == [raised |-> FALSE, val |-> v]

decode_rego_response(data) ==
    IF Len(data) < 5 THEN Raised
    ELSE LET b1 == data[2] % 128
             b2 == data[3] % 128
             b3 == data[4] % 128
             raw_value == b1 * 16384 + b2 * 128 + b3
         IN  Returned(IF (raw_value \div 65536) % 2 = 1
                      THEN raw_value - 131072
                      ELSE raw_value)

\* a scaling without the two's-complement folding
DecodeUnfolded(raw) == [num |-> raw, den |-> 10]

\* decode_rego_value: the 16-bit pattern folded to a signed value, then
\* raw / 10, kept as the fraction num / den
decode_rego_value(raw) ==
    [num |-> IF raw > 32767 THEN raw - 65536 ELSE raw, den |-> 10]

\* str.strip(): the code points Python treats as whitespace below 0x100
Whitespace == {9, 10, 11, 12, 13, 28, 29, 30, 31, 32, 133, 160}

RECURSIVE LStrip(_)
LStrip(s) == IF s # << >> /\ Head(s) \in Whitespace THEN LStrip(Tail(s)) ELSE s

RECURSIVE RStrip(_)
RStrip(s) ==
    IF s # << >> /\ s[Len(s)] \in Whitespace
    THEN RStrip(SubSeq(s, 1, Len(s) - 1))
    ELSE s

Strip(s) == RStrip(LStrip(s))

\* one character per nibble pair at Python offsets 1,3,..,39
RECURSIVE DisplayChars(_, _)
DisplayChars(data, i) ==
    IF i > 39 THEN << >>
    ELSE LET char_code == (data[i + 1] % 16) * 16 + (data[i + 2] % 16)
             char == IF char_code = 255 THEN << >>
                     ELSE IF char_code = 223 THEN << 176 >>
                     ELSE << char_code >>
         IN  char \o DisplayChars(data, i + 2)

\* a decoder that does not look at byte 0
DecodeDisplayAnyAddress(data) ==
    IF Len(data) # 42 THEN Raised
    ELSE Returned(Strip(DisplayChars(data, 1)))

decode_display_response(data) ==
    IF Len(data) # 42 THEN Raised
    ELSE IF data[1] # PC_ADDRESS THEN Raised
    ELSE Returned(Strip(DisplayChars(data, 1)))

\* a validation that accepts every checksum byte
ChecksumUnchecked(response) == TRUE

validate_response_checksum(response) ==
    BitXor(BitXor(response[2], response[3]), response[4]) = response[5]

(***************************************************************************)
(* Register access layer: what read_register makes of the bytes that       *)
(* ser.read(expected_length) returned.  decode is "rego" or "display".     *)
(***************************************************************************)
None == [absent |-> TRUE]
Value(v) == [absent |-> FALSE, val |-> v]

Decode(decode_func, response) ==
    IF decode_func = "display"
    THEN decode_display_response(response)
    ELSE decode_rego_response(response)

read_register(response, expected_length, decode_func) ==
    IF Len(response) # expected_length THEN None
    ELSE IF response[1] # PC_ADDRESS THEN None
    ELSE IF expected_length = 5 /\ ~validate_response_checksum(response) THEN None
    ELSE LET d == Decode(decode_func, response)
         IN  IF d.raised THEN None ELSE Value(d.val)


(***************************************************************************)
(* Pump profile: the tables selected by PUMP_SIZE_KW                       *)
(***************************************************************************)
PumpSizes == {4, 5, 7, 9, 11, 14, 16}

\* rego600_config.py
PUMP_SIZE_KW == 5

POWER_VALUES(size) ==
    LET base == [compressor |-> 1500, add_heat_3kw |-> 3000, add_heat_6kw |-> 6000,
                 pump_p1 |-> 55, pump_p2 |-> 46, pump_p3 |-> 106]
    IN  IF size = 4
        THEN [base EXCEPT !.compressor = 1100, !.pump_p1 = 0,
                          !.pump_p2 = 35, !.pump_p3 = 70]
        ELSE IF size = 7 THEN [base EXCEPT !.compressor = 1850]
        ELSE IF size = 9 THEN [base EXCEPT !.compressor = 2500]
        ELSE IF size = 11 THEN [base EXCEPT !.compressor = 4600]
        ELSE IF size = 14
        THEN [base EXCEPT !.compressor = 4100, !.add_heat_3kw = 5250,
                          !.add_heat_6kw = 10500]
        ELSE IF size = 16
        THEN [base EXCEPT !.compressor = 4600, !.add_heat_3kw = 5250,
                          !.add_heat_6kw = 10500, !.pump_p1 = 90, !.pump_p2 = 165]
        ELSE base

\* label -> register address; the two add-heat labels depend on the size
BINARY_SENSOR_MAP(size) ==
    LET common == [l \in {"Three-way Valve", "Add Heat Percentage", "Radiator Pump P1",
                          "Heat carrier pump P2", "Ground loop pump P3", "Compressor",
                          "Alarm"} |->
                     CASE l = "Three-way Valve" -> 517
                       [] l = "Add Heat Percentage" -> 108
                       [] l = "Radiator Pump P1" -> 515
                       [] l = "Heat carrier pump P2" -> 516
                       [] l = "Ground loop pump P3" -> 509
                       [] l = "Compressor" -> 510
                       [] l = "Alarm" -> 518]
        add == IF size \in {14, 16}
               THEN [l \in {"Add heat 5kw", "Add heat 10kw"} |->
                       IF l = "Add heat 5kw" THEN 511 ELSE 512]
               ELSE [l \in {"Add heat 3kw", "Add heat 6kw"} |->
                       IF l = "Add heat 3kw" THEN 511 ELSE 512]
    IN  [l \in DOMAIN common \cup DOMAIN add |->
            IF l \in DOMAIN common THEN common[l] ELSE add[l]]

(***************************************************************************)
(* publish_power_sensors: six reads in this order, each compared with 1;   *)
(* any exception (a missing label is a KeyError) is caught, nothing is     *)
(* published and 0 is returned.                                            *)
(***************************************************************************)
PowerLabels ==
    << "Compressor", "Add heat 3kw", "Add heat 6kw", "Radiator Pump P1",
       "Heat carrier pump P2", "Ground loop pump P3" >>

PowerNames ==
    << "compressor", "add_heat_3kw", "add_heat_6kw", "pump_p1", "pump_p2", "pump_p3" >>

\* BINARY_SENSOR_MAP[label] of the k-th read raises KeyError
PowerLookupFails(size, k) == PowerLabels[k] \notin DOMAIN BINARY_SENSOR_MAP(size)

\* read_sensor(...) == 1
IsOn(value) == ~value.absent /\ value.val = 1

\* power_map with its "total" entry, from the six booleans (compressor_on, ...)
power_map(size, on) ==
    LET pv == POWER_VALUES(size)
        w == [k \in 1..6 |-> IF on[k] THEN pv[PowerNames[k]] ELSE 0]
    IN  [compressor |-> w[1], add_heat_3kw |-> w[2], add_heat_6kw |-> w[3],
         pump_p1 |-> w[4], pump_p2 |-> w[5], pump_p3 |-> w[6],
         total |-> w[1] + w[2] + w[3] + w[4] + w[5] + w[6]]

\* the whole function, given the results the six reads would return
publish_power_sensors(size, values) ==
    IF \E k \in 1..6 : PowerLookupFails(size, k)
    THEN [published |-> FALSE, total |-> 0]
    ELSE LET on == [k \in 1..6 |-> IsOn(values[k])]
         IN  [published |-> TRUE, map |-> power_map(size, on),
              total |-> power_map(size, on).total]


(***************************************************************************)
(* Bounds of the model                                                     *)
(***************************************************************************)
\* entries of SENSOR_MAP, BINARY_SENSOR_MAP, LED_MAP, setting_keys and
\* DISPLAY_ROWS that a pass iterates over in the model
NSensors == 1
NBinary == 1
NLeds == 1
NSettings == 2
NRows == 1
\* transport disconnects of the MQTT session in the model
MaxDrops == 1
\* full sweeps the main loop starts in the model
MaxSweeps == 1

(***************************************************************************)
(* State                                                                   *)
(***************************************************************************)
VARIABLES
    \* serial channel
    serial_lock,      \* "free" or the thread holding serial_lock
    ser_open,         \* the port is open (ser.close() not yet called)
    wire,             \* "idle" or the thread whose request awaits its read
    torn,             \* bytes of one exchange fell inside another exchange
    xch,              \* per thread: "none", "wait" (for the guard), "written"
    \* main thread (monitor_loop)
    mainPc, mainS, power_vals, total_power_w, sweeps,
    energy_total,     \* energy_total_kwh, a float
    energy_file,      \* energy_total.json: thousandths of a kWh (None when missing)
    \* display_monitor thread
    dispPc, dispRow, last_display,
    \* MQTT client: network thread, connection, broker side
    mqttLoop, mqttPc, cmd, connected, connack_pending, will_set, subscribed,
    drops,            \* transport disconnects so far
    avail,            \* retained payload of <prefix>/availability
    \* environment and observation
    pump_size,        \* PUMP_SIZE_KW of the installation
    registers,        \* binary-sensor registers the controller reports as 1
    pubNone,          \* categories published with the absent value as payload
    shutLog,          \* statements of the finally block executed, in order
    \* scheduler clock (ticks of 100 ms)
    clock, now, last_heartbeat, last_full_update, last_energy_update,
    last_energy_save, tpc, hbPrev, hbLast,
    \* pure-function harness
    call, ret

serialVars == << serial_lock, ser_open, wire, torn, xch >>
mainVars == << mainPc, mainS, power_vals, total_power_w, sweeps >>
energyVars == << energy_total, energy_file >>
dispVars == << dispPc, dispRow, last_display >>
mqttVars == << mqttLoop, mqttPc, cmd, connected, connack_pending, will_set,
               subscribed, drops, avail >>
envVars == << pump_size, registers >>
obsVars == << pubNone, shutLog >>
timeVars == << clock, now, last_heartbeat, last_full_update, last_energy_update,
               last_energy_save, tpc, hbPrev, hbLast >>
fnVars == << call, ret >>

vars == << serialVars, mainVars, energyVars, dispVars, mqttVars, envVars, obsVars,
           timeVars, fnVars >>

Threads == {"main", "display", "mqtt"}


(***************************************************************************)
(* Register tables (name order is the iteration order of the dicts)        *)
(***************************************************************************)
SENSOR_MAP ==
    << 521, 110, 522, 523, 43, 109, 525, 526, 527, 528, 529, 530, 115, 116 >>

LED_MAP == << 18, 19, 20, 21, 22 >>

DISPLAY_ROWS == << 0, 1, 2, 3 >>

\* SETTINGS_MAP[key] in the order of setting_keys
SETTING_REGS ==
    << 33, 0, 1, 34, 2, 30, 28, 26, 24, 22, 20, 18, 16, 14, 12, 10, 8 >>

\* labels of BINARY_SENSOR_MAP in iteration order
BinaryLabels(size) ==
    << "Three-way Valve", "Add Heat Percentage", "Radiator Pump P1",
       "Heat carrier pump P2", "Ground loop pump P3", "Compressor", "Alarm" >>
    \o (IF size \in {14, 16} THEN << "Add heat 5kw", "Add heat 10kw" >>
        ELSE << "Add heat 3kw", "Add heat 6kw" >>)

(***************************************************************************)
(* The controller: what it answers                                         *)
(***************************************************************************)
\* a well-formed 5-byte answer carrying v (0 <= v < 2^16)
RegFrame(v) ==
    LET b == encode_register(v)
    IN  << PC_ADDRESS, b[1], b[2], b[3], BitXor(BitXor(b[1], b[2]), b[3]) >>

\* a well-formed 42-byte answer showing text (code points), padded with filler
RECURSIVE DisplayBody(_, _)
DisplayBody(text, n) ==
    IF n = 0 THEN << >>
    ELSE LET c == IF text = << >> THEN 255 ELSE Head(text)
             rest == IF text = << >> THEN << >> ELSE Tail(text)
         IN  << c \div 16, c % 16 >> \o DisplayBody(rest, n - 1)

DisplayFrame(text) == << PC_ADDRESS >> \o DisplayBody(text, 20) \o << 0 >>

\* values the controller holds
SensorValues == {215}
\* registers of the components reporting active: the compressor
RegStates == { {510} }
ComponentValue(reg) == IF reg \in registers THEN 1 ELSE 0

\* text the display shows: "A"
DisplayTexts == { << 65 >> }

\* ser.read() after a register request for a register holding v: the answer,
\* or nothing within the timeout
RegResponses(v) == { RegFrame(v), << >> }
DisplayResponses == { DisplayFrame(t) : t \in DisplayTexts } \cup { << >> }
\* ser.read(1) after a write command: the acknowledgement or nothing
AckResponses == { << PC_ADDRESS >>, << >> }

(***************************************************************************)
(* Transport guard: with serial_lock: write, sleep, read                   *)
(***************************************************************************)
Idle == [by |-> "nobody", request |-> << >>]

\* a lock that never blocks: what the exchanges would be without the guard
AcquireUnguarded(t) == TRUE

\* serial_lock.acquire() returns
CanAcquire(t) == serial_lock = "free"

\* the with block is entered and ser.write(request) returns
SendStep(t, request) ==
    /\ xch[t] = "wait"
    /\ CanAcquire(t)
    /\ ser_open
    /\ serial_lock' = t
    /\ wire' = [by |-> t, request |-> request]
    /\ torn' = (torn \/ wire.by # "nobody")
    /\ xch' = [xch EXCEPT ![t] = "written"]
    /\ UNCHANGED ser_open

\* a with block that is left without releasing the lock
ReadHoldsGuard(t, nxt) ==
    /\ xch[t] = "written"
    /\ ser_open
    /\ wire' = Idle
    /\ torn' = (torn \/ wire.by # t)
    /\ serial_lock' = t
    /\ xch' = [xch EXCEPT ![t] = nxt]
    /\ UNCHANGED ser_open

\* ser.read(n) returns; the with block is left; nxt is the thread's next phase
ReadStep(t, nxt) ==
    /\ xch[t] = "written"
    /\ ser_open
    /\ wire' = Idle
    /\ torn' = (torn \/ wire.by # t)
    /\ serial_lock' = "free"
    /\ xch' = [xch EXCEPT ![t] = nxt]
    /\ UNCHANGED ser_open

\* an exception that leaves the lock with the thread that raised
RaiseHoldsGuard(t, nxt) ==
    /\ (xch[t] = "wait" /\ CanAcquire(t)) \/ xch[t] = "written"
    /\ wire' = IF wire.by = t THEN Idle ELSE wire
    /\ serial_lock' = t
    /\ xch' = [xch EXCEPT ![t] = nxt]
    /\ UNCHANGED << ser_open, torn >>

\* ser.write or ser.read raises SerialException; the with block is left
RaiseStep(t, nxt) ==
    /\ (xch[t] = "wait" /\ CanAcquire(t)) \/ xch[t] = "written"
    /\ wire' = IF wire.by = t THEN Idle ELSE wire
    /\ serial_lock' = "free"
    /\ xch' = [xch EXCEPT ![t] = nxt]
    /\ UNCHANGED << ser_open, torn >>


(***************************************************************************)
(* Python floats (IEEE 754 binary64), non-negative and finite: a value is  *)
(* m * 2^e with m a sequence of 53 bits, most significant first and        *)
(* leading bit 1; zero has the empty mantissa.  Every operation rounds its *)
(* exact result to the nearest such value, ties to even.                   *)
(***************************************************************************)
FZero == [m |-> << >>, e |-> 0]

Zeros(n) == [i \in 1..n |-> 0]

AnyOne(b) == \E i \in DOMAIN b : b[i] = 1

\* b without its leading zeros
StripZeros(b) ==
    IF ~AnyOne(b) THEN << >>
    ELSE LET i == CHOOSE i \in DOMAIN b : b[i] = 1 /\ \A j \in 1..(i - 1) : b[j] = 0
         IN  SubSeq(b, i, Len(b))

RECURSIVE BitsOf(_)
BitsOf(n) == IF n = 0 THEN << >> ELSE BitsOf(n \div 2) \o << n % 2 >>

RECURSIVE BitsVal(_)
BitsVal(b) == IF b = << >> THEN 0 ELSE 2 * BitsVal(SubSeq(b, 1, Len(b) - 1)) + b[Len(b)]

\* b + 1
Incr(b) ==
    IF \A i \in DOMAIN b : b[i] = 1 THEN << 1 >> \o Zeros(Len(b))
    ELSE LET z == CHOOSE i \in DOMAIN b :
                     b[i] = 0 /\ \A j \in (i + 1)..Len(b) : b[j] = 1
         IN  [i \in 1..Len(b) |-> IF i < z THEN b[i] ELSE IF i = z THEN 1 ELSE 0]

\* a bit string as 16-bit limbs, most significant first, and back
Limbs(b) ==
    LET n == Len(b)
        c == (n + 15) \div 16
    IN  [i \in 1..c |->
            LET hi == n - 16 * (c - i)
                lo == IF hi > 16 THEN hi - 15 ELSE 1
            IN  BitsVal(SubSeq(b, lo, hi))]

Unlimbs(l) ==
    [j \in 1..(16 * Len(l)) |-> (l[((j - 1) \div 16) + 1] \div 2 ^ (15 - ((j - 1) % 16))) % 2]

\* limb arithmetic with a small integer: l * k + carry, (rem, l) / d, a + b + c
RECURSIVE MulLimbs(_, _, _)
MulLimbs(l, k, carry) ==
    IF l = << >> THEN << carry >>
    ELSE LET acc == l[Len(l)] * k + carry
         IN  MulLimbs(SubSeq(l, 1, Len(l) - 1), k, acc \div 65536) \o << acc % 65536 >>

RECURSIVE DivLimbs(_, _, _)
DivLimbs(l, d, rem) ==
    IF l = << >> THEN [q |-> << >>, r |-> rem]
    ELSE LET cur == rem * 65536 + Head(l)
             quot == cur \div d
             rest == DivLimbs(Tail(l), d, cur % d)
         IN  [q |-> << quot >> \o rest.q, r |-> rest.r]

RECURSIVE AddLimbs(_, _, _)
AddLimbs(a, b, c) ==
    IF a = << >> THEN << c >>
    ELSE LET s == a[Len(a)] + b[Len(b)] + c
         IN  AddLimbs(SubSeq(a, 1, Len(a) - 1), SubSeq(b, 1, Len(b) - 1), s \div 65536)
             \o << s % 65536 >>

\* the same on bit strings (results may carry leading zeros)
AddBits(a, b, c) == Unlimbs(AddLimbs(Limbs(a), Limbs(b), c))

MulBits(b, k, carry) == Unlimbs(MulLimbs(Limbs(b), k, carry))

DivBits(b, d, rem) ==
    LET dv == DivLimbs(Limbs(b), d, rem) IN [q |-> Unlimbs(dv.q), r |-> dv.r]

\* the double nearest to bits * 2^e (plus, when sticky, a fraction of the last
\* bit; then bits carries at least 55 significant bits)
FRound(bits, e, sticky) ==
    LET b == StripZeros(bits)
        n == Len(b)
    IN  IF n = 0 THEN FZero
        ELSE IF n <= 53 THEN [m |-> b \o Zeros(53 - n), e |-> e - (53 - n)]
        ELSE LET top == SubSeq(b, 1, 53)
                 rest == AnyOne(SubSeq(b, 55, n)) \/ sticky
                 up == b[54] = 1 /\ (rest \/ top[53] = 1)
                 t == IF up THEN Incr(top) ELSE top
             IN  IF Len(t) = 54 THEN [m |-> SubSeq(t, 1, 53), e |-> e + (n - 53) + 1]
                 ELSE [m |-> t, e |-> e + (n - 53)]

\* float(n)
FromInt(n) == FRound(BitsOf(n), 0, FALSE)

\* x / d for an integer-valued double d
FDivInt(x, d) ==
    IF x.m = << >> THEN FZero
    ELSE LET dv == DivBits(x.m \o Zeros(16), d, 0)
         IN  FRound(dv.q, x.e - 16, dv.r # 0)

\* k * x for an int k
FMulInt(k, x) ==
    IF k = 0 \/ x.m = << >> THEN FZero ELSE FRound(MulBits(x.m, k, 0), x.e, FALSE)

\* x + y
FAdd(x, y) ==
    IF x.m = << >> THEN y
    ELSE IF y.m = << >> THEN x
    ELSE LET e == IF x.e < y.e THEN x.e ELSE y.e
             xb == x.m \o Zeros(x.e - e)
             yb == y.m \o Zeros(y.e - e)
             n == IF Len(xb) > Len(yb) THEN Len(xb) ELSE Len(yb)
         IN  FRound(AddBits(Zeros(n - Len(xb)) \o xb, Zeros(n - Len(yb)) \o yb, 0),
                    e, FALSE)

(***************************************************************************)
(* Energy accumulator                                                      *)
(***************************************************************************)
\* ticks per second: the clock counts the 100 ms of time.sleep(0.1)
TICKS_PER_SECOND == 10
\* "if now_energy - last_energy_save >= 600"
ENERGY_SAVE_SECONDS == 600

\* round(value, 3), as a count of thousandths: the integer nearest to
\* value * 1000, ties to even (values below 2^52)
Round3(x) ==
    IF x.m = << >> THEN 0
    ELSE LET b == MulBits(x.m, 1000, 0)
             n == Len(b)
             k == 0 - x.e
             int == IF k >= n THEN << >> ELSE SubSeq(b, 1, n - k)
             frac == IF k >= n THEN Zeros(k - n) \o b ELSE SubSeq(b, n - k + 1, n)
             q == BitsVal(int)
             half == frac # << >> /\ frac[1] = 1
             more == frac # << >> /\ AnyOne(Tail(frac))
         IN  IF half /\ (more \/ q % 2 = 1) THEN q + 1 ELSE q

\* the double a count of thousandths stands for: float("1.002")
FromMilli(n) == LET whole == FromInt(n) IN FDivInt(whole, 1000)

\* a file that exists but cannot be parsed (json.load or float raises)
Corrupt == [absent |-> FALSE, corrupt |-> TRUE]

Unreadable(file) == "corrupt" \in DOMAIN file

\* a load that ignores the file
LoadAlwaysZero(file) == FZero

\* load_energy_total(): the stored total, 0.0 when the file is missing or
\* reading it raises; the file holds a count of thousandths of a kWh
load_energy_total(file) ==
    IF file.absent \/ Unreadable(file) THEN FZero ELSE FromMilli(file.val)

\* save_energy_total(value): the file afterwards; a failing write is swallowed
save_energy_total(file, value, ok) == IF ok THEN Value(Round3(value)) ELSE file

\* the integration without the division by 1000: watt-hours added as kWh
IntegrateWattHours(energy, p, dt) ==
    LET elapsed == FromInt(dt)
        dt_hours == FDivInt(elapsed, 3600)
        watt_hours == FMulInt(p, dt_hours)
    IN  FAdd(energy, watt_hours)

\* dt_hours = dt / 3600.0; energy_total_kwh += (total_power_w * dt_hours) / 1000.0
\* for dt a whole number of seconds
Integrate(energy, p, dt) ==
    LET elapsed == FromInt(dt)
        dt_hours == FDivInt(elapsed, 3600)
        watt_hours == FMulInt(p, dt_hours)
        delta == FDivInt(watt_hours, 1000)
    IN  FAdd(energy, delta)

\* a block that saves in every sweep
SaveInEverySweep(t, last) == TRUE

\* if now_energy - last_energy_save >= 600
SaveDue(t, last) == t - last >= ENERGY_SAVE_SECONDS * TICKS_PER_SECOND

\* a block that skips the integration, timestamp included, when no power is drawn
EnergyBlockSkipsIdle(p, t, ok) ==
    IF p = 0
    THEN UNCHANGED << energy_total, last_energy_update, energy_file, last_energy_save >>
    ELSE /\ energy_total' = Integrate(energy_total, p,
                                      (t - last_energy_update) \div TICKS_PER_SECOND)
         /\ last_energy_update' = t
         /\ IF SaveDue(t, last_energy_save)
            THEN /\ energy_file' = save_energy_total(energy_file, energy_total', ok)
                 /\ last_energy_save' = t
            ELSE UNCHANGED << energy_file, last_energy_save >>

\* lines 938-947: integrate at now_energy = t (ticks, on a whole second), save
\* when 600 s have passed
EnergyBlock(p, t, ok) ==
    /\ energy_total' = Integrate(energy_total, p,
                                 (t - last_energy_update) \div TICKS_PER_SECOND)
    /\ last_energy_update' = t
    /\ IF SaveDue(t, last_energy_save)
       THEN /\ energy_file' = save_energy_total(energy_file, energy_total', ok)
            /\ last_energy_save' = t
       ELSE UNCHANGED << energy_file, last_energy_save >>

(***************************************************************************)
(* MQTT client: what a publish on the availability topic does              *)
(***************************************************************************)
\* a packet handed to the client reaches the broker: the session is up and
\* the network thread, once started, is alive to send it
Delivered == connected /\ mqttLoop # "dead"

AvailAfter(v) == IF Delivered THEN v ELSE avail

PublishAvail(v) == avail' = AvailAfter(v)


(***************************************************************************)
(* Main thread: setup_mqtt and the start of monitor_loop                   *)
(***************************************************************************)
\* a setup that announces "online" right after connecting, before subscribing
SetupOnlineEarly(pc) ==
    CASE pc = "will_set" -> "connect"
      [] pc = "connect" -> "publish_online"
      [] pc = "publish_online" -> "subscribe"
      [] pc = "subscribe" -> "loop_start"

\* the order of the steps of setup_mqtt: will_set, connect, subscribe,
\* publish "online"; loop_start follows in monitor_loop
SetupNext(pc) ==
    CASE pc = "will_set" -> "connect"
      [] pc = "connect" -> "subscribe"
      [] pc = "subscribe" -> "publish_online"
      [] pc = "publish_online" -> "loop_start"

MainWillSet ==
    /\ mainPc = "will_set"
    /\ will_set' = TRUE
    /\ mainPc' = SetupNext(mainPc)
    /\ UNCHANGED << serialVars, mainS, power_vals, total_power_w, sweeps, energyVars,
                    dispVars, mqttLoop, mqttPc, cmd, connected, connack_pending,
                    subscribed, drops, avail, envVars, obsVars, timeVars, fnVars >>

MainConnect ==
    /\ mainPc = "connect"
    /\ connected' = TRUE
    /\ connack_pending' = TRUE
    /\ mainPc' = SetupNext(mainPc)
    /\ UNCHANGED << serialVars, mainS, power_vals, total_power_w, sweeps, energyVars,
                    dispVars, mqttLoop, mqttPc, cmd, will_set, subscribed, drops,
                    avail, envVars, obsVars, timeVars, fnVars >>

\* client.subscribe(".../set/#"), then publish_ha_discovery (static payloads)
MainSubscribe ==
    /\ mainPc = "subscribe"
    /\ subscribed' = TRUE
    /\ mainPc' = SetupNext(mainPc)
    /\ UNCHANGED << serialVars, mainS, power_vals, total_power_w, sweeps, energyVars,
                    dispVars, mqttLoop, mqttPc, cmd, connected, connack_pending,
                    will_set, drops, avail, envVars, obsVars, timeVars, fnVars >>

MainPublishOnline ==
    /\ mainPc = "publish_online"
    /\ PublishAvail("online")
    /\ mainPc' = SetupNext(mainPc)
    /\ UNCHANGED << serialVars, mainS, power_vals, total_power_w, sweeps, energyVars,
                    dispVars, mqttLoop, mqttPc, cmd, connected, connack_pending,
                    will_set, subscribed, drops, envVars, obsVars, timeVars, fnVars >>

\* mqtt_client.loop_start(), load_energy_total(), the two timestamps,
\* last_heartbeat = 0, last_full_update = 0.0
MainLoopStart ==
    /\ mainPc = "loop_start"
    /\ mqttLoop' = "running"
    /\ energy_total' = load_energy_total(energy_file)
    /\ last_energy_update' = clock
    /\ last_energy_save' = clock
    /\ mainPc' = "start_display"
    /\ UNCHANGED << serialVars, mainS, power_vals, total_power_w, sweeps, energy_file,
                    dispVars, mqttPc, cmd, connected, connack_pending, will_set,
                    subscribed, drops, avail, envVars, obsVars, clock, now,
                    last_heartbeat, last_full_update, tpc, hbPrev, hbLast, fnVars >>

\* threading.Thread(target=display_monitor, daemon=True).start()
MainStartDisplay ==
    /\ mainPc = "start_display"
    /\ dispPc' = "row"
    /\ dispRow' = 1
    /\ xch' = [xch EXCEPT !["display"] = "wait"]
    /\ mainPc' = "loop_top"
    /\ UNCHANGED << serial_lock, ser_open, wire, torn, mainS, power_vals,
                    total_power_w, sweeps, energyVars, last_display, mqttVars, envVars,
                    obsVars, timeVars, fnVars >>


(***************************************************************************)
(* Main thread: the positions of a full sweep                              *)
(***************************************************************************)
\* categories in the order of the sweep; 5 is the energy block (no read)
CatNames == << "sensor", "binary", "led", "power", "energy", "setting" >>

CatLen(cat) ==
    CASE cat = 1 -> NSensors
      [] cat = 2 -> NBinary
      [] cat = 3 -> NLeds
      [] cat = 4 -> 6
      [] cat = 6 -> NSettings

Pos(pc, cat, idx) == [pc |-> pc, cat |-> cat, idx |-> idx]

\* a full update that reads the settings right after the LEDs
SettingsAfterLeds(cat) ==
    IF cat \in {1, 2} THEN Pos("item", cat + 1, 1)
    ELSE IF cat = 3 THEN Pos("item", 6, 1)
    ELSE Pos("loop_top", 0, 0)

\* where the sweep goes after category cat: the next call of the full update;
\* after the settings last_full_update = now, time.sleep(0.1) and the next
\* iteration
AfterCategory(cat) ==
    IF cat \in {1, 2, 3} THEN Pos("item", cat + 1, 1)
    ELSE IF cat = 4 THEN Pos("energy", 5, 1)
    ELSE Pos("loop_top", 0, 0)

\* the for loop goes on with the next item of the map
NextItem(cat, idx) ==
    IF idx < CatLen(cat) THEN Pos("item", cat, idx + 1) ELSE AfterCategory(cat)

\* a loop that went on with the next item after a SerialException
AfterSerialErrorContinue(cat, idx) == NextItem(cat, idx)

\* except serial.SerialException: break
AfterSerialError(cat, idx) == AfterCategory(cat)

\* an exception other than SerialException at an item: publish_map and the
\* settings loop continue with the next item (except Exception: continue),
\* publish_power_sensors leaves with 0 (except Exception: return 0)
AfterItemError(cat, idx) == IF cat = 4 THEN AfterCategory(cat) ELSE NextItem(cat, idx)

XchOf(pos) == IF pos.pc = "item" THEN "wait" ELSE "none"

MainMove(pos) ==
    /\ mainPc' = pos.pc
    /\ mainS' = [cat |-> pos.cat, idx |-> pos.idx]

\* the request of the read at position (cat, idx) and the register's content
ItemRequest(cat, idx) ==
    CASE cat = 1 -> build_request(PUMP_ADDRESS, READ_SYSTEM_REGISTER, SENSOR_MAP[idx])
      [] cat = 2 -> build_request(PUMP_ADDRESS, READ_SYSTEM_REGISTER,
                                  BINARY_SENSOR_MAP(pump_size)[BinaryLabels(pump_size)[idx]])
      [] cat = 3 -> build_request(PUMP_ADDRESS, READ_FRONT_PANEL, LED_MAP[idx])
      [] cat = 4 -> build_request(PUMP_ADDRESS, READ_SYSTEM_REGISTER,
                                  BINARY_SENSOR_MAP(pump_size)[PowerLabels[idx]])
      [] cat = 6 -> build_request(PUMP_ADDRESS, READ_SYSTEM_REGISTER, SETTING_REGS[idx])

ItemValues(cat, idx) ==
    CASE cat = 2 -> { ComponentValue(BINARY_SENSOR_MAP(pump_size)[BinaryLabels(pump_size)[idx]]) }
      [] cat = 4 -> { ComponentValue(BINARY_SENSOR_MAP(pump_size)[PowerLabels[idx]]) }
      [] OTHER -> SensorValues

\* mqtt_publish is called with the value read: publish_map tests
\* "value is not None", the settings loop publishes whatever was read
Publishes(cat, value) == IF cat \in {1, 2, 3} THEN ~value.absent ELSE TRUE

PubNoneAfter(cat, value) ==
    IF Publishes(cat, value) /\ value.absent THEN pubNone \cup {CatNames[cat]} ELSE pubNone


(***************************************************************************)
(* Main thread: the while loop of monitor_loop                             *)
(***************************************************************************)
\* time the energy block finds elapsed since the last integration: one
\* interval of the sweep
SpecElapsed == { SWEEP_INTERVAL * TICKS_PER_SECOND }

\* now = time.time(); the heartbeat publishes "online" when it is due
MainLoopTop ==
    /\ mainPc = "loop_top"
    /\ \E due \in BOOLEAN :
          IF due THEN PublishAvail("online") ELSE UNCHANGED avail
    /\ mainPc' = "sweep_check"
    /\ UNCHANGED << serialVars, mainS, power_vals, total_power_w, sweeps, energyVars,
                    dispVars, mqttLoop, mqttPc, cmd, connected, connack_pending,
                    will_set, subscribed, drops, envVars, obsVars, timeVars, fnVars >>

\* now - last_full_update >= interval: the full update begins, as long as the
\* model has sweeps left
SweepStart(limit) ==
    /\ mainPc = "sweep_check"
    /\ sweeps < limit
    /\ sweeps' = sweeps + 1
    /\ MainMove(Pos("item", 1, 1))
    /\ xch' = [xch EXCEPT !["main"] = "wait"]
    /\ power_vals' = << >>
    /\ UNCHANGED << serial_lock, ser_open, wire, torn, total_power_w, energyVars,
                    dispVars, mqttVars, envVars, obsVars, timeVars >>

MainSweepStart == SweepStart(MaxSweeps) /\ UNCHANGED fnVars

\* no full update is due; time.sleep(0.1)
MainSweepSkip ==
    /\ mainPc = "sweep_check"
    /\ mainPc' = "loop_top"
    /\ UNCHANGED << serialVars, mainS, power_vals, total_power_w, sweeps, energyVars,
                    dispVars, mqttVars, envVars, obsVars, timeVars, fnVars >>

\* the read of the item begins: the register is looked up (a KeyError inside
\* publish_power_sensors is caught there and 0 returned), the guard is taken
\* and the request written
MainSend ==
    /\ mainPc = "item"
    /\ IF mainS.cat = 4 /\ PowerLookupFails(pump_size, mainS.idx)
       THEN /\ xch["main"] = "wait"
            /\ total_power_w' = 0
            /\ MainMove(Pos("energy", 5, 1))
            /\ xch' = [xch EXCEPT !["main"] = "none"]
            /\ UNCHANGED << serial_lock, ser_open, wire, torn >>
       ELSE /\ SendStep("main", ItemRequest(mainS.cat, mainS.idx))
            /\ UNCHANGED << mainPc, mainS, total_power_w >>
    /\ UNCHANGED << power_vals, sweeps, energyVars, dispVars, mqttVars, envVars,
                    obsVars, timeVars, fnVars >>

\* the read returns: validation, decoding, and what the caller does with it
ItemRead ==
    /\ mainPc = "item"
    /\ \E v \in ItemValues(mainS.cat, mainS.idx) : \E resp \in RegResponses(v) :
          LET value == read_register(resp, REG_RESPONSE_LEN, "rego")
              cat == mainS.cat
              idx == mainS.idx
              pos == NextItem(cat, idx)
          IN  /\ ReadStep("main", XchOf(pos))
              /\ MainMove(pos)
              /\ pubNone' = PubNoneAfter(cat, value)
              /\ power_vals' = IF cat = 4 THEN Append(power_vals, IsOn(value))
                               ELSE power_vals
              /\ total_power_w' = IF cat = 4 /\ idx = 6
                                  THEN power_map(pump_size, power_vals').total
                                  ELSE total_power_w
    /\ UNCHANGED << sweeps, energyVars, dispVars, mqttVars, envVars, shutLog,
                    timeVars >>

MainRead == ItemRead /\ UNCHANGED fnVars

\* ser.write or ser.read raises SerialException: publish_map and the settings
\* loop break, publish_power_sensors returns 0
ItemSerialError ==
    /\ mainPc = "item"
    /\ LET pos == AfterSerialError(mainS.cat, mainS.idx)
       IN  /\ RaiseStep("main", XchOf(pos))
           /\ MainMove(pos)
    /\ total_power_w' = IF mainS.cat = 4 THEN 0 ELSE total_power_w
    /\ UNCHANGED << power_vals, sweeps, energyVars, dispVars, mqttVars, envVars,
                    obsVars, timeVars >>

MainSerialError == ItemSerialError /\ UNCHANGED fnVars

\* power and energy update, then the settings
MainEnergy ==
    /\ mainPc = "energy"
    /\ \E d \in SpecElapsed : \E ok \in BOOLEAN :
          /\ clock' = clock + d
          /\ EnergyBlock(total_power_w, clock + d, ok)
    /\ MainMove(Pos("item", 6, 1))
    /\ xch' = [xch EXCEPT !["main"] = "wait"]
    /\ UNCHANGED << serial_lock, ser_open, wire, torn, power_vals, total_power_w,
                    sweeps, dispVars, mqttVars, envVars, obsVars, now, last_heartbeat,
                    last_full_update, tpc, hbPrev, hbLast, fnVars >>

(***************************************************************************)
(* Main thread: KeyboardInterrupt and the finally block                    *)
(***************************************************************************)
TryPcs == {"loop_top", "sweep_check", "item", "energy"}

\* the interrupt unwinds a with block the main thread is in
Interrupt ==
    /\ mainPc \in TryPcs
    /\ mainPc' = "fin_offline"
    /\ xch' = [xch EXCEPT !["main"] = "none"]
    /\ IF xch["main"] = "written"
       THEN /\ serial_lock' = "free"
            /\ wire' = IF wire.by = "main" THEN Idle ELSE wire
       ELSE UNCHANGED << serial_lock, wire >>
    /\ UNCHANGED << ser_open, torn, mainS, power_vals, total_power_w, sweeps,
                    energyVars, dispVars, mqttVars, envVars, obsVars, timeVars, fnVars >>

\* a finally block that flushes the energy total before closing the port
FinSaveBeforeClose(pc) ==
    CASE pc = "fin_offline" -> "fin_loop_stop"
      [] pc = "fin_loop_stop" -> "fin_save"
      [] pc = "fin_save" -> "fin_close"
      [] pc = "fin_close" -> "done"

\* the statements of the finally block, in order
FinNext(pc) ==
    CASE pc = "fin_offline" -> "fin_loop_stop"
      [] pc = "fin_loop_stop" -> "fin_close"
      [] pc = "fin_close" -> "fin_save"
      [] pc = "fin_save" -> "done"

\* try: publish("offline") except Exception: pass
AfterOfflinePublish(raised) == FinNext("fin_offline")

MainFinOffline ==
    /\ mainPc = "fin_offline"
    /\ \E raised \in BOOLEAN :
          /\ IF raised THEN UNCHANGED avail ELSE PublishAvail("offline")
          /\ mainPc' = AfterOfflinePublish(raised)
          /\ shutLog' = Append(shutLog, IF raised THEN "offline_raised" ELSE "offline")
    /\ UNCHANGED << serialVars, mainS, power_vals, total_power_w, sweeps, energyVars,
                    dispVars, mqttLoop, mqttPc, cmd, connected, connack_pending,
                    will_set, subscribed, drops, envVars, pubNone, timeVars, fnVars >>

\* mqtt_client.loop_stop() joins the network thread
MainFinLoopStop ==
    /\ mainPc = "fin_loop_stop"
    /\ mqttPc = "idle" \/ mqttLoop = "dead"
    /\ mqttLoop' = IF mqttLoop = "dead" THEN "dead" ELSE "stopped"
    /\ mainPc' = FinNext(mainPc)
    /\ shutLog' = Append(shutLog, "loop_stop")
    /\ UNCHANGED << serialVars, mainS, power_vals, total_power_w, sweeps, energyVars,
                    dispVars, mqttPc, cmd, connected, connack_pending, will_set,
                    subscribed, drops, avail, envVars, pubNone, timeVars, fnVars >>

\* ser.close()
MainFinClose ==
    /\ mainPc = "fin_close"
    /\ ser_open' = FALSE
    /\ mainPc' = FinNext(mainPc)
    /\ shutLog' = Append(shutLog, "close")
    /\ UNCHANGED << serial_lock, wire, torn, xch, mainS, power_vals, total_power_w,
                    sweeps, energyVars, dispVars, mqttVars, envVars, pubNone, timeVars,
                    fnVars >>

\* save_energy_total(energy_total_kwh)
MainFinSave ==
    /\ mainPc = "fin_save"
    /\ \E ok \in BOOLEAN :
          energy_file' = save_energy_total(energy_file, energy_total, ok)
    /\ mainPc' = FinNext(mainPc)
    /\ shutLog' = Append(shutLog, "save")
    /\ UNCHANGED << serialVars, mainS, power_vals, total_power_w, sweeps, energy_total,
                    dispVars, mqttVars, envVars, pubNone, timeVars, fnVars >>


(***************************************************************************)
(* display_monitor thread                                                  *)
(***************************************************************************)
\* last_display.get(row_name) != new_value
Differs(a, b) == a.absent # b.absent \/ (~a.absent /\ ~b.absent /\ a.val # b.val)

\* a loop that publishes every text it has read
PublishesEveryText(cached, value) == ~value.absent

\* "if new_value is None: continue", then publish only on change
DisplayPublishes(cached, value) == ~value.absent /\ Differs(cached, value)

\* a loop that a SerialException ends
DisplayErrorEnds(kind) == "ended"

\* except serial.SerialException: time.sleep(2.0); except Exception:
\* time.sleep(1.0); both inside "while True"
AfterDisplayError(kind) == "backoff"

DispSend ==
    /\ dispPc = "row"
    /\ mainPc # "done"
    /\ SendStep("display", build_request(PUMP_ADDRESS, READ_DISPLAY, DISPLAY_ROWS[dispRow]))
    /\ UNCHANGED << mainVars, energyVars, dispVars, mqttVars, envVars, obsVars,
                    timeVars, fnVars >>

\* read_display_line returns what it made of resp; the row is published on
\* change; after the last row time.sleep(display_interval)
RowRead(resp) ==
    /\ dispPc = "row"
    /\ mainPc # "done"
    /\ LET value == read_register(resp, DISPLAY_RESPONSE_LEN, "display")
           pub == DisplayPublishes(last_display[dispRow], value)
           last == dispRow = NRows
       IN  /\ ReadStep("display", IF last THEN "none" ELSE "wait")
           /\ last_display' = IF pub THEN [last_display EXCEPT ![dispRow] = value]
                              ELSE last_display
           /\ pubNone' = IF pub /\ value.absent THEN pubNone \cup {"display"}
                         ELSE pubNone
           /\ dispRow' = IF last THEN dispRow ELSE dispRow + 1
           /\ dispPc' = IF last THEN "sleep" ELSE "row"
    /\ UNCHANGED << mainVars, energyVars, mqttVars, envVars, shutLog, timeVars >>

DispRead == \E resp \in DisplayResponses : RowRead(resp) /\ UNCHANGED fnVars

\* read_display_line raises: SerialException ("serial") or another exception
\* ("other"); the pass over the rows is left for the except clause
RowError(kind) ==
    /\ dispPc = "row"
    /\ mainPc # "done"
    /\ RaiseStep("display", "none")
    /\ dispPc' = AfterDisplayError(kind)
    /\ UNCHANGED << mainVars, energyVars, dispRow, last_display, mqttVars, envVars,
                    obsVars, timeVars >>

\* except serial.SerialException: time.sleep(2.0)
DispSerialError == RowError("serial") /\ UNCHANGED fnVars

\* the sleep ends: the next pass starts with the first row
DispWake ==
    /\ dispPc \in {"sleep", "backoff"}
    /\ mainPc # "done"
    /\ dispPc' = "row"
    /\ dispRow' = 1
    /\ xch' = [xch EXCEPT !["display"] = "wait"]
    /\ UNCHANGED << serial_lock, ser_open, wire, torn, mainVars, energyVars,
                    last_display, mqttVars, envVars, obsVars, timeVars, fnVars >>


(***************************************************************************)
(* Inbound commands: on_mqtt_message and the write operations              *)
(***************************************************************************)
\* setting_topics joined with SETTINGS_MAP: topic key -> register
SETTING_TOPICS ==
    << << "indoor_temp_setting", 33 >>, << "heat_curve", 0 >>,
       << "heat_curve_fine_adj", 1 >>, << "curve_infl_by_in_temp", 34 >>,
       << "heat_curve_coupling_diff", 2 >>, << "adjust_curve_at_20_out", 30 >>,
       << "adjust_curve_at_15_out", 28 >>, << "adjust_curve_at_10_out", 26 >>,
       << "adjust_curve_at_5_out", 24 >>, << "adjust_curve_at_0_out", 22 >>,
       << "adjust_curve_at_-5_out", 20 >>, << "adjust_curve_at_-10_out", 18 >>,
       << "adjust_curve_at_-15_out", 16 >>, << "adjust_curve_at_-20_out", 14 >>,
       << "adjust_curve_at_-25_out", 12 >>, << "adjust_curve_at_-30_out", 10 >>,
       << "adjust_curve_at_-35_out", 8 >> >>

KEYPANEL_MAP ==
    [n \in {"Key 1", "Key 2", "Key 3", "Wheel"} |->
        CASE n = "Key 1" -> 9 [] n = "Key 2" -> 10 [] n = "Key 3" -> 11
          [] n = "Wheel" -> 68]

\* key_topics: topic key -> action
KEY_TOPICS ==
    << << "1", "Key 1" >>, << "2", "Key 2" >>, << "3", "Key 3" >>,
       << "wheel_left", "left" >>, << "wheel_right", "right" >> >>

NoOp == [op |-> "none", reg |-> 0, arg |-> 0]

\* a routing that sends every command to the first setting
RouteToFirstSetting(topic, payload) ==
    [op |-> "write_setting", reg |-> SETTING_TOPICS[1][2], arg |-> payload]

\* the two for loops of on_mqtt_message; a topic is << "setting" | "key", key >>
Route(topic, payload) ==
    IF topic[1] = "setting" /\ \E i \in DOMAIN SETTING_TOPICS : SETTING_TOPICS[i][1] = topic[2]
    THEN LET i == CHOOSE i \in DOMAIN SETTING_TOPICS : SETTING_TOPICS[i][1] = topic[2]
         IN  [op |-> "write_setting", reg |-> SETTING_TOPICS[i][2], arg |-> payload]
    ELSE IF topic[1] = "key" /\ \E i \in DOMAIN KEY_TOPICS : KEY_TOPICS[i][1] = topic[2]
    THEN LET i == CHOOSE i \in DOMAIN KEY_TOPICS : KEY_TOPICS[i][1] = topic[2]
         IN  IF i >= 4
             THEN [op |-> "turn_wheel", reg |-> KEYPANEL_MAP["Wheel"],
                   arg |-> KEY_TOPICS[i][2]]
             ELSE [op |-> "press_key", reg |-> KEYPANEL_MAP[KEY_TOPICS[i][2]], arg |-> 1]
    ELSE NoOp

\* packet + checksum, as the three write operations assemble it
WritePacket(command, reg_bytes, value_bytes) ==
    LET packet == << PUMP_ADDRESS, command >> \o reg_bytes \o value_bytes
    IN  Append(packet, calculate_checksum(packet))

write_setting(reg_addr, value) ==
    WritePacket(WRITE_SYSTEM_REGISTER, encode_register(reg_addr), encode_register(value))

press_key(reg_addr) ==
    WritePacket(WRITE_FRONT_PANEL, encode_register(reg_addr), encode_register(1))

\* sentinels the wrong way round
WheelSwapped(direction) ==
    CASE direction = "left" -> 1
      [] direction = "right" -> 2097151

\* left = 0x1FFFFF, right = 0x000001, shifted by 18 / 11 and masked to 7 bits
WheelValue(direction) ==
    CASE direction = "left" -> 2097151
      [] direction = "right" -> 1

\* any other direction: logged, return False before the with block
TurnWheelRejects(direction) == direction \notin {"left", "right"}

turn_wheel(direction) ==
    LET value == WheelValue(direction)
        value_bytes == << BitAnd(value, 786432) \div 262144,
                          BitAnd(value, 260096) \div 2048,
                          BitAnd(BitAnd(value, 255), 127) >>
    IN  WritePacket(WRITE_FRONT_PANEL, encode_register(KEYPANEL_MAP["Wheel"]), value_bytes)

CmdPacket(c) ==
    CASE c.op = "write_setting" -> write_setting(c.reg, c.arg)
      [] c.op = "press_key" -> press_key(c.reg)
      [] c.op = "turn_wheel" -> turn_wheel(c.arg)

\* a payload as the broker delivers it: bytes that are UTF-8 or not
\* (msg.payload.decode()), text that int() accepts or not
IntPayload(v) == [utf8 |-> TRUE, isInt |-> TRUE, val |-> v]
TextPayload == [utf8 |-> TRUE, isInt |-> FALSE, val |-> 0]
BytesPayload == [utf8 |-> FALSE, isInt |-> FALSE, val |-> 0]

\* messages the broker delivers in the thread model
CmdTopics == { << "setting", "heat_curve" >>, << "key", "1" >>,
               << "key", "wheel_left" >>, << "other", "x" >> }
CmdPayloads == { IntPayload(21), TextPayload, BytesPayload }

\* what becomes of an exception raised inside a callback: on_mqtt_message has
\* no handler around the decode and the write, and the client re-raises what
\* a callback raises, which ends its network thread
CallbackRaised(loop) == "dead"

\* on_mqtt_message up to the call of the write operation: the payload is
\* decoded outside the try block (UnicodeDecodeError leaves the callback),
\* int() inside it (ValueError: return), then the two for loops
Handle(topic, payload) ==
    IF ~payload.utf8
    THEN /\ mqttPc' = "decode_raised"
         /\ mqttLoop' = CallbackRaised(mqttLoop)
         /\ UNCHANGED << cmd, xch >>
    ELSE LET c == IF payload.isInt THEN Route(topic, payload.val) ELSE NoOp
         IN  /\ IF c.op = "none"
                THEN UNCHANGED << mqttPc, cmd, xch >>
                ELSE /\ mqttPc' = "cmd"
                     /\ cmd' = c
                     /\ xch' = [xch EXCEPT !["mqtt"] = "wait"]
             /\ UNCHANGED mqttLoop

\* the network thread can run the callback
CanDeliver ==
    /\ mqttLoop = "running"
    /\ mqttPc = "idle"
    /\ connected /\ subscribed /\ ~connack_pending

OnMqttMessage ==
    /\ CanDeliver
    /\ \E topic \in CmdTopics : \E payload \in CmdPayloads : Handle(topic, payload)
    /\ UNCHANGED << serial_lock, ser_open, wire, torn, mainVars, energyVars, dispVars,
                    connected, connack_pending, will_set, subscribed, drops,
                    avail, envVars, obsVars, timeVars, fnVars >>

CmdSend ==
    /\ mqttPc = "cmd"
    /\ SendStep("mqtt", CmdPacket(cmd))
    /\ UNCHANGED << mainVars, energyVars, dispVars, mqttVars, envVars, obsVars,
                    timeVars, fnVars >>

\* the acknowledgement is read, the result logged, the callback returns
CmdRead ==
    /\ mqttPc = "cmd"
    /\ \E resp \in AckResponses : ReadStep("mqtt", "none")
    /\ mqttPc' = "idle"
    /\ cmd' = NoOp
    /\ UNCHANGED << mainVars, energyVars, dispVars, mqttLoop, connected,
                    connack_pending, will_set, subscribed, drops, avail,
                    envVars, obsVars, timeVars, fnVars >>

\* ser.write or ser.read raises SerialException inside the command
CmdSerialError ==
    /\ mqttPc = "cmd"
    /\ RaiseStep("mqtt", "none")
    /\ mqttPc' = "raised"
    /\ cmd' = NoOp
    /\ mqttLoop' = CallbackRaised(mqttLoop)
    /\ UNCHANGED << mainVars, energyVars, dispVars, connected, connack_pending,
                    will_set, subscribed, drops, avail, envVars, obsVars,
                    timeVars, fnVars >>

(***************************************************************************)
(* MQTT session: connect callback, transport disconnect, reconnect         *)
(***************************************************************************)
\* on_mqtt_connect: publish "online"
OnMqttConnect ==
    /\ mqttLoop = "running"
    /\ mqttPc = "idle"
    /\ connected /\ connack_pending
    /\ PublishAvail("online")
    /\ connack_pending' = FALSE
    /\ UNCHANGED << serialVars, mainVars, energyVars, dispVars, mqttLoop, mqttPc, cmd,
                    connected, will_set, subscribed, drops, envVars, obsVars, timeVars,
                    fnVars >>

\* the transport drops: the broker publishes the last will and forgets the
\* subscriptions of the (clean) session
NetDrop ==
    /\ mqttLoop = "running"
    /\ connected
    /\ drops < MaxDrops
    /\ drops' = drops + 1
    /\ connected' = FALSE
    /\ subscribed' = FALSE
    /\ avail' = IF will_set THEN "offline" ELSE avail
    /\ UNCHANGED << serialVars, mainVars, energyVars, dispVars, mqttLoop, mqttPc, cmd,
                    connack_pending, will_set, envVars, obsVars, timeVars, fnVars >>

\* Client(CallbackAPIVersion.VERSION2, ...)
CALLBACK_API_VERSION == 2
\* def on_mqtt_disconnect(client, userdata, rc)
ON_DISCONNECT_PARAMS == 3
\* arguments the client passes to on_disconnect under each callback API version
OnDisconnectArgs(version) == IF version = 2 THEN 5 ELSE 3
\* the call of on_mqtt_disconnect raises TypeError
OnDisconnectRaises == OnDisconnectArgs(CALLBACK_API_VERSION) # ON_DISCONNECT_PARAMS

\* the network thread notices the loss and calls on_disconnect; when the
\* callback returns it reconnects, when the callback raises the thread ends
LoopDisconnect ==
    /\ mqttLoop = "running"
    /\ mqttPc = "idle"
    /\ ~connected
    /\ IF OnDisconnectRaises
       THEN /\ mqttLoop' = CallbackRaised(mqttLoop)
            /\ UNCHANGED << connected, connack_pending >>
       ELSE /\ connected' = TRUE
            /\ connack_pending' = TRUE
            /\ UNCHANGED mqttLoop
    /\ UNCHANGED << serialVars, mainVars, energyVars, dispVars, mqttPc, cmd, will_set,
                    subscribed, drops, avail, envVars, obsVars, timeVars,
                    fnVars >>


(***************************************************************************)
(* Initial states                                                          *)
(***************************************************************************)
\* time.time() at process start: later than any interval after the epoch,
\* so that the first cadence checks against last_heartbeat = 0 and
\* last_full_update = 0.0 succeed
StartClock == HEARTBEAT_INTERVAL * TICKS_PER_SECOND

\* installations the thread model runs with
SpecPumpSizes == {PUMP_SIZE_KW}
\* energy_total.json at start: 0.002 kWh from an earlier run
StartFiles == { Value(2) }

SerialInit ==
    /\ serial_lock = "free"
    /\ ser_open = TRUE
    /\ wire = Idle
    /\ torn = FALSE
    /\ xch = [t \in Threads |-> "none"]

MainInit ==
    /\ mainPc = "will_set"
    /\ mainS = [cat |-> 0, idx |-> 0]
    /\ power_vals = << >>
    /\ sweeps = 0

DispInit ==
    /\ dispPc = "not_started"
    /\ dispRow = 1
    /\ last_display = [r \in 1..NRows |-> None]

MqttInit ==
    /\ mqttLoop = "not_started"
    /\ mqttPc = "idle"
    /\ cmd = NoOp
    /\ connected = FALSE
    /\ connack_pending = FALSE
    /\ will_set = FALSE
    /\ subscribed = FALSE
    /\ drops = 0
    /\ avail = "none"

ObsInit ==
    /\ pubNone = {}
    /\ shutLog = << >>

TimeInit ==
    /\ clock = StartClock
    /\ now = StartClock
    /\ last_heartbeat = 0
    /\ last_full_update = 0
    /\ last_energy_update = StartClock
    /\ last_energy_save = StartClock
    /\ tpc = "top"
    /\ hbPrev = 0
    /\ hbLast = 0

FnInit ==
    /\ call = [fn |-> "none"]
    /\ ret = [done |-> FALSE]

(***************************************************************************)
(* The bridge: three threads, the serial channel and the MQTT session      *)
(***************************************************************************)
Init ==
    /\ SerialInit /\ MainInit /\ DispInit /\ MqttInit /\ ObsInit /\ TimeInit /\ FnInit
    /\ total_power_w = 0
    /\ energy_total = FZero
    /\ energy_file \in StartFiles
    /\ pump_size \in SpecPumpSizes
    /\ registers \in RegStates

Next ==
    \/ MainWillSet \/ MainConnect \/ MainSubscribe \/ MainPublishOnline
    \/ MainLoopStart \/ MainStartDisplay
    \/ MainLoopTop \/ MainSweepStart \/ MainSweepSkip
    \/ MainSend \/ MainRead \/ MainSerialError \/ MainEnergy
    \/ Interrupt \/ MainFinOffline \/ MainFinLoopStop \/ MainFinClose \/ MainFinSave
    \/ DispSend \/ DispRead \/ DispSerialError \/ DispWake
    \/ OnMqttMessage \/ CmdSend \/ CmdRead \/ CmdSerialError
    \/ OnMqttConnect \/ NetDrop \/ LoopDisconnect

Spec == Init /\ [][Next]_vars

(***************************************************************************)
(* Properties of the bridge                                                *)
(***************************************************************************)
InFlight == { t \in Threads : xch[t] = "written" }

\* C1: at most one serial exchange is in flight at any time across the
\* display loop, the sweep and the command callback, for reads and writes
\* alike; the thread in flight holds serial_lock, and no request was ever
\* written or response read while another thread's exchange was open.
C1_OneExchangeInFlight ==
    /\ Cardinality(InFlight) <= 1
    /\ \A t \in InFlight : serial_lock = t /\ wire.by = t
    /\ ~torn

\* a command write is in flight between two settings reads of a sweep while
\* the display loop waits for the guard as well
C1_CommandBetweenReads ==
    /\ xch["mqtt"] = "written"
    /\ cmd.op = "write_setting"
    /\ mainPc = "item" /\ mainS.cat = 6 /\ mainS.idx = 2 /\ xch["main"] = "wait"
    /\ xch["display"] = "wait"

\* C2: a transport failure during the exchange of an inbound command is
\* contained in the command handler: no exception leaves on_mqtt_message and
\* the thread dispatching the commands stays alive.
C2_CommandFailureContained == mqttPc # "raised"

\* C3: a read that returns the absent value publishes nothing for that item,
\* in every polled category (sensors, binary sensors, LEDs, settings, display
\* rows).
C3_AbsentNeverPublished == pubNone = {}

Position(log, step) == { i \in DOMAIN log : log[i] = step }

FinallyOrder == << "offline", "loop_stop", "close", "save" >>

\* the finally block with a failed publish in place of the successful one
Normalised(log) == [i \in DOMAIN log |-> IF log[i] = "offline_raised" THEN "offline" ELSE log[i]]

C8_OnlineAfterSetup ==
    avail # "none" =>
        /\ will_set
        /\ connected \/ drops > 0
        /\ subscribed \/ drops > 0

\* the first "online", published by setup_mqtt before the network loop starts
C8_FirstOnline ==
    /\ mainPc = "loop_start"
    /\ mqttLoop = "not_started"
    /\ avail = "online"
    /\ will_set /\ connected /\ subscribed

(***************************************************************************)
(* The MQTT session while the bridge idles: no sweep is due, no command    *)
(* arrives, nobody interrupts.  The while loop of the main thread and the   *)
(* network thread keep running (weak fairness); the transport may drop at  *)
(* any time.                                                               *)
(***************************************************************************)
MainIdle == MainLoopTop \/ MainSweepSkip

NetworkThread == OnMqttConnect \/ LoopDisconnect

NextSession ==
    \/ MainWillSet \/ MainConnect \/ MainSubscribe \/ MainPublishOnline
    \/ MainLoopStart \/ MainStartDisplay \/ MainLoopTop \/ MainSweepSkip
    \/ DispSend \/ DispRead \/ DispSerialError \/ DispWake
    \/ OnMqttConnect \/ NetDrop \/ LoopDisconnect

SpecSession ==
    /\ Init
    /\ [][NextSession]_vars
    /\ WF_vars(MainIdle)
    /\ WF_vars(NetworkThread)

\* C6: after a transport disconnect the availability topic shows "offline"
\* and then, once the client has reconnected and on_mqtt_connect has run,
\* "online" again.
C6_OfflineThenOnline == (drops > 0 /\ avail = "offline") ~> (avail = "online")

(***************************************************************************)
(* The register access layer on its own: one read, any response            *)
(***************************************************************************)
\* longest response drawn byte by byte
MaxRespLen == 6

\* bytes a response is made of: data bytes, the echo address, the pump address
CodecBytes == {0, PC_ADDRESS, 2, 3, PUMP_ADDRESS}

ShortResponses == UNION { [1..n -> CodecBytes] : n \in 0..MaxRespLen }

\* display answers: any first byte, one byte short, exact, one byte long
DisplayLengthResponses ==
    { << h >> \o Tail(DisplayFrame(t)) \o pad :
        h \in CodecBytes, t \in { << >>, << 65 >>, << 32, 65, 223 >> },
        pad \in { << >>, << 0 >> } }
    \cup { SubSeq(DisplayFrame(<< 65 >>), 1, DISPLAY_RESPONSE_LEN - 1) }

Readers == {"read_sensor", "read_led_state", "read_setting", "read_display_line"}

\* expected_length and decode_func each reader passes to read_register
ExpectedLength(reader) ==
    IF reader = "read_display_line" THEN DISPLAY_RESPONSE_LEN ELSE REG_RESPONSE_LEN

DecodeFunc(reader) == IF reader = "read_display_line" THEN "display" ELSE "rego"

CodecCalls ==
    { [fn |-> reader, response |-> r] :
        reader \in Readers, r \in ShortResponses \cup DisplayLengthResponses }

\* the variables a specification of one function leaves at their start values
Backdrop ==
    /\ SerialInit /\ MainInit /\ DispInit /\ MqttInit /\ ObsInit
    /\ pump_size = PUMP_SIZE_KW

InitCodec ==
    /\ Backdrop /\ TimeInit
    /\ total_power_w = 0
    /\ energy_total = FZero
    /\ energy_file = None
    /\ registers = {}
    /\ call \in CodecCalls
    /\ ret = [done |-> FALSE]

\* ser.read(expected_length) has returned call.response; read_register returns
ReadReturns ==
    /\ call.fn \in Readers
    /\ ~ret.done
    /\ ret' = [done |-> TRUE,
               val |-> read_register(call.response, ExpectedLength(call.fn),
                                     DecodeFunc(call.fn))]
    /\ UNCHANGED << serialVars, mainVars, energyVars, dispVars, mqttVars, envVars,
                    obsVars, timeVars, call >>

NextCodec == ReadReturns

SpecCodec == InitCodec /\ [][NextCodec]_vars

\* C9: a register read returns a decoded value if and only if the response
\* has exactly the expected length (5, or 42 for a display row), byte 0 is
\* 0x01 and, for a 5-byte response, byte1 XOR byte2 XOR byte3 equals byte 4;
\* in every other case it returns the absent value.
C9_ValueIffValidFrame ==
    ret.done =>
        LET r == call.response
            n == IF call.fn = "read_display_line" THEN 42 ELSE 5
            valid == /\ Len(r) = n
                     /\ r[1] = 1
                     /\ n = 5 => BitXor(r[2], BitXor(r[3], r[4])) = r[5]
        IN  /\ ret.val.absent \in BOOLEAN
            /\ ~ret.val.absent <=> valid

\* a sensor read decodes a well-formed answer: 1 * 2^14 + 2 * 2^7 + 3
C9_SensorDecoded ==
    /\ ret.done
    /\ call = [fn |-> "read_sensor", response |-> << 1, 1, 2, 3, 0 >>]
    /\ ret.val = Value(16643)

(***************************************************************************)
(* publish_power_sensors on its own: every profile, every component state  *)
(***************************************************************************)
\* registers of compressor, the two add-heat stages, P1, P2, P3
ComponentRegs == << 510, 511, 512, 515, 516, 509 >>

ComponentRegSet == { ComponentRegs[k] : k \in 1..6 }

InitPower ==
    /\ SerialInit /\ MainInit /\ DispInit /\ MqttInit /\ ObsInit /\ TimeInit
    /\ pump_size \in PumpSizes
    /\ registers \in SUBSET ComponentRegSet
    /\ total_power_w = 0
    /\ energy_total = FZero
    /\ energy_file = None
    /\ call = [fn |-> "publish_power_sensors"]
    /\ ret = [done |-> FALSE]

\* what the k-th read_sensor call returns when the pump answers correctly
PowerRead(size, k) ==
    IF PowerLookupFails(size, k)
    THEN None
    ELSE read_register(RegFrame(ComponentValue(BINARY_SENSOR_MAP(size)[PowerLabels[k]])),
                       REG_RESPONSE_LEN, "rego")

\* total_power_w = publish_power_sensors(), every read answered
PowerSweep ==
    /\ call.fn = "publish_power_sensors"
    /\ ~ret.done
    /\ LET result == publish_power_sensors(pump_size,
                                           [k \in 1..6 |-> PowerRead(pump_size, k)])
       IN  /\ ret' = [done |-> TRUE, val |-> result]
           /\ total_power_w' = result.total
    /\ UNCHANGED << serialVars, mainPc, mainS, power_vals, sweeps, energy_total,
                    energy_file, dispVars, mqttVars, envVars, obsVars, timeVars, call >>

NextPower == PowerSweep

SpecPower == InitPower /\ [][NextPower]_vars

\* wattage the profile assigns to the k-th component
Wattage(size, k) ==
    LET pv == POWER_VALUES(size)
    IN  CASE k = 1 -> pv.compressor
          [] k = 2 -> pv.add_heat_3kw
          [] k = 3 -> pv.add_heat_6kw
          [] k = 4 -> pv.pump_p1
          [] k = 5 -> pv.pump_p2
          [] k = 6 -> pv.pump_p3

Expected(size, k) == IF ComponentRegs[k] \in registers THEN Wattage(size, k) ELSE 0

\* C4: for every pump profile (4, 5, 7, 9, 11, 14, 16) and every combination
\* of the six component states read successfully, the power published per
\* component is the profile's wattage when the component is active and 0
\* otherwise, and the published total is the sum of the active wattages.
C4_PowerPublished ==
    ret.done =>
        /\ ret.val.published
        /\ ret.val.map.compressor = Expected(pump_size, 1)
        /\ ret.val.map.add_heat_3kw = Expected(pump_size, 2)
        /\ ret.val.map.add_heat_6kw = Expected(pump_size, 3)
        /\ ret.val.map.pump_p1 = Expected(pump_size, 4)
        /\ ret.val.map.pump_p2 = Expected(pump_size, 5)
        /\ ret.val.map.pump_p3 = Expected(pump_size, 6)
        /\ ret.val.map.total = Expected(pump_size, 1) + Expected(pump_size, 2)
                               + Expected(pump_size, 3) + Expected(pump_size, 4)
                               + Expected(pump_size, 5) + Expected(pump_size, 6)
        /\ total_power_w = ret.val.map.total

\* the same statement for the profiles with the 3kw/6kw labels only
C4_SmallProfiles == pump_size \notin {14, 16} => C4_PowerPublished

\* a 14 kW pump with the compressor running: nothing published, total 0
C4_LargeProfileSilent ==
    /\ ret.done /\ pump_size = 14 /\ 510 \in registers
    /\ ~ret.val.published /\ total_power_w = 0

(***************************************************************************)
(* The scheduler of monitor_loop on its own: the two cadences against the  *)
(* clock, one tick = 0.1 s.  A read holds the main thread for the 0.1 s    *)
(* delay and, when the pump does not answer, for the serial timeout too.   *)
(***************************************************************************)
\* serial read timeout in seconds
TIMEOUT == 1

\* ticks of running time explored
MaxTicks == 900

\* time.sleep(delay) in read_register, in ticks
READ_DELAY == 1

\* what one read costs: answered at once, or timed out
ReadTicks == { READ_DELAY, READ_DELAY + TIMEOUT * TICKS_PER_SECOND }

\* reads of a full update before the energy block, and after it
ReadsBeforeEnergy ==
    Len(SENSOR_MAP) + Len(BinaryLabels(PUMP_SIZE_KW)) + Len(LED_MAP) + Len(PowerLabels)

ReadsAfterEnergy == Len(SETTING_REGS)

InitTime ==
    /\ SerialInit /\ MainInit /\ DispInit /\ MqttInit /\ ObsInit /\ TimeInit
    /\ pump_size = PUMP_SIZE_KW
    /\ registers = {}
    /\ total_power_w = 0
    /\ energy_total = FZero
    /\ energy_file = None
    /\ call = [fn |-> "monitor_loop"]
    /\ ret = [done |-> FALSE]

\* top of the while loop: now = time.time(), then the heartbeat check
TimeHeartbeat ==
    /\ tpc = "top"
    /\ now' = clock
    /\ IF clock - last_heartbeat >= HEARTBEAT_INTERVAL * TICKS_PER_SECOND
       THEN /\ last_heartbeat' = clock
            /\ hbPrev' = hbLast
            /\ hbLast' = clock
       ELSE UNCHANGED << last_heartbeat, hbPrev, hbLast >>
    /\ tpc' = "sweep_check"
    /\ UNCHANGED << serialVars, mainVars, energyVars, dispVars, mqttVars, envVars,
                    obsVars, clock, last_full_update, last_energy_update,
                    last_energy_save, fnVars >>

\* the full update is due: every read, the energy block in between, and
\* last_full_update = now with the now taken at the top of the iteration
TimeSweep ==
    /\ tpc = "sweep_check"
    /\ now - last_full_update >= SWEEP_INTERVAL * TICKS_PER_SECOND
    /\ clock - StartClock < MaxTicks
    /\ \E per \in ReadTicks :
          /\ EnergyBlock(total_power_w, clock + ReadsBeforeEnergy * per, TRUE)
          /\ clock' = clock + (ReadsBeforeEnergy + ReadsAfterEnergy) * per
    /\ last_full_update' = now
    /\ tpc' = "sleep"
    /\ UNCHANGED << serialVars, mainVars, dispVars, mqttVars, envVars, obsVars, now,
                    last_heartbeat, hbPrev, hbLast, fnVars >>

\* no full update is due
TimeNoSweep ==
    /\ tpc = "sweep_check"
    /\ now - last_full_update < SWEEP_INTERVAL * TICKS_PER_SECOND
    /\ tpc' = "sleep"
    /\ UNCHANGED << serialVars, mainVars, energyVars, dispVars, mqttVars, envVars,
                    obsVars, clock, now, last_heartbeat, last_full_update,
                    last_energy_update, last_energy_save, hbPrev, hbLast, fnVars >>

\* time.sleep(0.1)
Sleep(limit) ==
    /\ tpc = "sleep"
    /\ clock - StartClock < limit
    /\ clock' = clock + 1
    /\ tpc' = "top"
    /\ UNCHANGED << serialVars, mainVars, energyVars, dispVars, mqttVars, envVars,
                    obsVars, now, last_heartbeat, last_full_update,
                    last_energy_update, last_energy_save, hbPrev, hbLast, fnVars >>

TimeSleep == Sleep(MaxTicks)

NextTime == TimeHeartbeat \/ TimeSweep \/ TimeNoSweep \/ TimeSleep

SpecTime == InitTime /\ [][NextTime]_vars

\* C5: while the bridge runs, the time between two consecutive heartbeat
\* publishes never exceeds the heartbeat interval plus one idle tick
\* (100 ms), also when a sweep takes longer than the heartbeat interval.
C5_HeartbeatGap ==
    hbPrev > 0 => hbLast - hbPrev <= HEARTBEAT_INTERVAL * TICKS_PER_SECOND + 1

(***************************************************************************)
(* The energy block on its own: constant power, sweeps dividing an hour    *)
(***************************************************************************)
\* seconds of integration explored
MaxEnergySeconds == 3600

\* seconds between two integrations
StepSeconds == {300, 600, 1800, 3600}

\* total_power_w held over the run
HeldPowers == {0, 1000, POWER_VALUES(PUMP_SIZE_KW).compressor}

InitEnergy ==
    /\ SerialInit /\ MainInit /\ DispInit /\ MqttInit /\ ObsInit /\ TimeInit
    /\ pump_size = PUMP_SIZE_KW
    /\ registers = {}
    /\ total_power_w \in HeldPowers
    /\ energy_file \in {None, Value(2)}
    /\ energy_total = load_energy_total(energy_file)
    /\ call = [fn |-> "energy",
               start |-> IF energy_file.absent THEN 0 ELSE energy_file.val]
    /\ ret = [done |-> FALSE]

\* one pass through lines 938-947, dt seconds after the previous one
EnergySweep ==
    /\ call.fn = "energy"
    /\ \E dt \in StepSeconds : \E ok \in BOOLEAN :
          /\ clock - StartClock + dt * TICKS_PER_SECOND
                <= MaxEnergySeconds * TICKS_PER_SECOND
          /\ clock' = clock + dt * TICKS_PER_SECOND
          /\ EnergyBlock(total_power_w, clock + dt * TICKS_PER_SECOND, ok)
    /\ UNCHANGED << serialVars, mainVars, dispVars, mqttVars, envVars, obsVars, now,
                    last_heartbeat, last_full_update, tpc, hbPrev, hbLast, fnVars >>

NextEnergy == EnergySweep

SpecEnergy == InitEnergy /\ [][NextEnergy]_vars

\* seconds integrated so far
Elapsed == (clock - StartClock) \div TICKS_PER_SECOND

MaxRunSweeps == 3

\* restarts explored
MaxRestarts == 1

\* seconds between two integrations: the sweep interval, and a slow sweep
RunSteps == {SWEEP_INTERVAL, ENERGY_SAVE_SECONDS}

InitRestart ==
    /\ SerialInit /\ MainInit /\ DispInit /\ MqttInit /\ ObsInit /\ TimeInit
    /\ pump_size = PUMP_SIZE_KW
    /\ registers = {}
    /\ total_power_w \in {1000, POWER_VALUES(PUMP_SIZE_KW).compressor}
    /\ energy_file \in {None, Value(2), Corrupt}
    /\ energy_total = load_energy_total(energy_file)
    /\ call = [fn |-> "restart", phase |-> "started", at |-> FZero, saved |-> FALSE,
               restarts |-> 0, sweeps |-> 0]
    /\ ret = [done |-> FALSE]

\* a full update reaches the energy block, dt seconds after the previous one
RunSweep ==
    /\ call.fn = "restart"
    /\ call.phase \in {"started", "running"}
    /\ \E dt \in RunSteps : \E ok \in BOOLEAN :
          /\ call.sweeps < MaxRunSweeps
          /\ clock' = clock + dt * TICKS_PER_SECOND
          /\ EnergyBlock(total_power_w, clock + dt * TICKS_PER_SECOND, ok)
    /\ call' = [call EXCEPT !.phase = "running", !.sweeps = call.sweeps + 1]
    /\ UNCHANGED << serialVars, mainVars, dispVars, mqttVars, envVars, obsVars, now,
                    last_heartbeat, last_full_update, tpc, hbPrev, hbLast, ret >>

\* the finally block: save_energy_total(energy_total_kwh), then the process ends
RunShutdown ==
    /\ call.fn = "restart"
    /\ call.phase \in {"started", "running"}
    /\ call.restarts < MaxRestarts
    /\ \E ok \in BOOLEAN :
          /\ energy_file' = save_energy_total(energy_file, energy_total, ok)
          /\ call' = [call EXCEPT !.phase = "stopped", !.at = energy_total,
                                  !.saved = ok]
    /\ UNCHANGED << serialVars, mainVars, energy_total, dispVars, mqttVars, envVars,
                    obsVars, timeVars, ret >>

\* the file is deleted or damaged while the bridge is down
FileLost ==
    /\ call.fn = "restart"
    /\ call.phase = "stopped"
    /\ energy_file \notin {None, Corrupt}
    /\ energy_file' \in {None, Corrupt}
    /\ call' = [call EXCEPT !.saved = FALSE]
    /\ UNCHANGED << serialVars, mainVars, energy_total, dispVars, mqttVars, envVars,
                    obsVars, timeVars, ret >>

\* monitor_loop starts again: load_energy_total(), both energy timestamps = now
RunStartup ==
    /\ call.fn = "restart"
    /\ call.phase = "stopped"
    /\ energy_total' = load_energy_total(energy_file)
    /\ last_energy_update' = clock
    /\ last_energy_save' = clock
    /\ call' = [call EXCEPT !.phase = "started", !.restarts = call.restarts + 1]
    /\ UNCHANGED << serialVars, mainVars, energy_file, dispVars, mqttVars, envVars,
                    obsVars, clock, now, last_heartbeat, last_full_update, tpc,
                    hbPrev, hbLast, ret >>

NextRestart == RunSweep \/ RunShutdown \/ FileLost \/ RunStartup

SpecRestart == InitRestart /\ [][NextRestart]_vars

\* C11 as stated: after a clean shutdown followed by a restart, the
\* accumulator starts at the total it had at shutdown.
C11_StartsAtShutdownTotal ==
    (call.phase = "started" /\ call.saved) => energy_total = call.at

\* C11 amended: at startup the accumulator is the total last written to the
\* file, which is the total at 3-decimal precision, and 0.0 when the file is
\* absent or unreadable; a failing save leaves the accumulator as it was; after
\* a clean shutdown and a restart the accumulator starts at the shutdown total
\* rounded to three decimals.
C11_StartsAtSavedTotal ==
    /\ call.phase = "started" =>
          /\ (energy_file = None \/ energy_file = Corrupt) => energy_total = FZero
          /\ (energy_file # None /\ energy_file # Corrupt) =>
                /\ energy_total = FromMilli(energy_file.val)
                /\ Round3(energy_total) = energy_file.val
          /\ call.saved => energy_file = Value(Round3(call.at))
    /\ call.phase = "stopped" => energy_total = call.at

\* a restart after 15 s at 1000 W: 0.004166.. kWh at shutdown, 0.004 after
C11_RestartRounds ==
    /\ call.phase = "started" /\ call.saved
    /\ energy_file = Value(4)
    /\ energy_total = FromMilli(4)
    /\ energy_total # call.at
    /\ Round3(call.at) = 4

(***************************************************************************)
(* The command handler on its own: one inbound message, every topic, with  *)
(* the frames it writes and what the write operation returns on record     *)
(***************************************************************************)
\* topics under <prefix>/set/: every setting key, every key, and others
AllTopics ==
    { << "setting", SETTING_TOPICS[i][1] >> : i \in DOMAIN SETTING_TOPICS }
    \cup { << "key", KEY_TOPICS[i][1] >> : i \in DOMAIN KEY_TOPICS }
    \cup { << "setting", "unknown" >>, << "key", "4" >>, << "key", "wheel_up" >>,
           << "other", "heat_curve" >> }

\* integer payloads: small, at the 7-bit group borders, negative, beyond 16 bits
CommandInts == {-1, 0, 1, 21, 127, 128, 16383, 16384, 65535, 65536}

AllPayloads == { IntPayload(v) : v \in CommandInts } \cup { TextPayload, BytesPayload }

\* bytes ser.read(1) can return after a write: at most one
AckBytes == {0, PC_ADDRESS, 2, PUMP_ADDRESS, 255}
AckReads == { << >> } \cup { << b >> : b \in AckBytes }

\* an acknowledgement test that looks at the length only
AckAnyByte(response) == Len(response) = 1

\* return len(response) == 1 and response[0] == PC_ADDRESS
AckOk(response) == Len(response) = 1 /\ response[1] = PC_ADDRESS

\* a session in which the network thread runs callbacks
InitSessionUp ==
    /\ mqttLoop = "running"
    /\ mqttPc = "idle"
    /\ cmd = NoOp
    /\ connected = TRUE
    /\ connack_pending = FALSE
    /\ will_set = TRUE
    /\ subscribed = TRUE
    /\ drops = 0
    /\ avail = "online"

\* directions turn_wheel is called with
WheelDirections == {"left", "right", "up", "Left", ""}

NoResult == [done |-> FALSE, frames |-> << >>, returned |-> None, response |-> << >>]

InitCommand ==
    /\ SerialInit /\ MainInit /\ DispInit /\ InitSessionUp /\ ObsInit /\ TimeInit
    /\ pump_size = PUMP_SIZE_KW
    /\ registers = {}
    /\ total_power_w = 0
    /\ energy_total = FZero
    /\ energy_file = None
    /\ call \in { [fn |-> "on_mqtt_message", topic |-> t, payload |-> p] :
                    t \in AllTopics, p \in AllPayloads }
             \cup { [fn |-> "turn_wheel", direction |-> d] : d \in WheelDirections }
    /\ ret = NoResult

\* the message of this run is delivered: on_mqtt_message is called
Deliver ==
    /\ call.fn = "on_mqtt_message"
    /\ ~ret.done
    /\ CanDeliver
    /\ Handle(call.topic, call.payload)
    /\ ret' = [ret EXCEPT !.done = TRUE]
    /\ UNCHANGED << serial_lock, ser_open, wire, torn, mainVars, energyVars, dispVars,
                    connected, connack_pending, will_set, subscribed, drops,
                    avail, envVars, obsVars, timeVars, call >>

\* turn_wheel(ser, direction) is called by the callback thread
WheelCall ==
    /\ call.fn = "turn_wheel"
    /\ ~ret.done
    /\ mqttPc = "idle"
    /\ IF TurnWheelRejects(call.direction)
       THEN /\ ret' = [ret EXCEPT !.done = TRUE, !.returned = Value(FALSE)]
            /\ UNCHANGED << mqttPc, cmd, xch >>
       ELSE /\ ret' = [ret EXCEPT !.done = TRUE]
            /\ mqttPc' = "cmd"
            /\ cmd' = [op |-> "turn_wheel", reg |-> KEYPANEL_MAP["Wheel"],
                       arg |-> call.direction]
            /\ xch' = [xch EXCEPT !["mqtt"] = "wait"]
    /\ UNCHANGED << serial_lock, ser_open, wire, torn, mainVars, energyVars, dispVars,
                    mqttLoop, connected, connack_pending, will_set, subscribed, drops,
                    avail, envVars, obsVars, timeVars, call >>

\* the write operation takes the guard and writes its frame
CommandSend ==
    /\ ret.done
    /\ mqttPc = "cmd"
    /\ SendStep("mqtt", CmdPacket(cmd))
    /\ ret' = [ret EXCEPT !.frames = Append(@, CmdPacket(cmd))]
    /\ UNCHANGED << mainVars, energyVars, dispVars, mqttVars, envVars, obsVars,
                    timeVars, call >>

\* ser.read(1) returns, the guard is released, the operation returns
CommandRead ==
    /\ ret.done
    /\ mqttPc = "cmd"
    /\ \E resp \in AckReads :
          /\ ReadStep("mqtt", "none")
          /\ ret' = [ret EXCEPT !.returned = Value(AckOk(resp)), !.response = resp]
    /\ mqttPc' = "idle"
    /\ cmd' = NoOp
    /\ UNCHANGED << mainVars, energyVars, dispVars, mqttLoop, connected,
                    connack_pending, will_set, subscribed, drops, avail,
                    envVars, obsVars, timeVars, call >>

\* ser.write or ser.read raises SerialException inside the operation
CommandSerialError ==
    /\ ret.done
    /\ mqttPc = "cmd"
    /\ RaiseStep("mqtt", "none")
    /\ mqttPc' = "raised"
    /\ cmd' = NoOp
    /\ mqttLoop' = CallbackRaised(mqttLoop)
    /\ UNCHANGED << mainVars, energyVars, dispVars, connected, connack_pending,
                    will_set, subscribed, drops, avail, envVars, obsVars,
                    timeVars, fnVars >>

NextCommand == Deliver \/ WheelCall \/ CommandSend \/ CommandRead \/ CommandSerialError

SpecCommand == InitCommand /\ [][NextCommand]_vars

\* the topic is one of the recognised command topics
Recognised(topic) ==
    \/ topic[1] = "setting" /\ topic[2] \in
         {"indoor_temp_setting", "heat_curve", "heat_curve_fine_adj",
          "curve_infl_by_in_temp", "heat_curve_coupling_diff",
          "adjust_curve_at_20_out", "adjust_curve_at_15_out", "adjust_curve_at_10_out",
          "adjust_curve_at_5_out", "adjust_curve_at_0_out", "adjust_curve_at_-5_out",
          "adjust_curve_at_-10_out", "adjust_curve_at_-15_out",
          "adjust_curve_at_-20_out", "adjust_curve_at_-25_out",
          "adjust_curve_at_-30_out", "adjust_curve_at_-35_out"}
    \/ topic[1] = "key" /\ topic[2] \in {"1", "2", "3", "wheel_left", "wheel_right"}

\* C12: an inbound message whose payload is not an integer, or whose topic is
\* not a recognised command topic, is ignored: no serial exchange, the guard
\* never taken, accumulator, display cache, timestamps and liveness state
\* unchanged, and the handler does not crash.
C12_IgnoredMessage ==
    (call.fn = "on_mqtt_message" /\ ret.done /\ (~call.payload.isInt \/ ~Recognised(call.topic))) =>
        /\ mqttPc = "idle" /\ mqttLoop = "running"
        /\ ret.frames = << >> /\ wire = Idle
        /\ serial_lock = "free" /\ xch["mqtt"] = "none"
        /\ energy_total = FZero /\ energy_file = None
        /\ last_display = [r \in DOMAIN last_display |-> None]
        /\ clock = StartClock /\ last_heartbeat = 0 /\ last_full_update = 0
        /\ last_energy_update = StartClock /\ last_energy_save = StartClock
        /\ avail = "online" /\ connected

\* the same for payloads that are text
C12_TextOrTopicIgnored ==
    (call.fn = "on_mqtt_message" /\ call.payload.utf8) => C12_IgnoredMessage

\* the operation, command byte and front-panel or system register a
\* recognised topic stands for; the settings table gives the setting register
SettingRegister(key) ==
    SETTING_TOPICS[CHOOSE i \in DOMAIN SETTING_TOPICS : SETTING_TOPICS[i][1] = key][2]

Target(topic) ==
    IF topic[1] = "setting"
    THEN [op |-> "write_setting", command |-> 3, reg |-> SettingRegister(topic[2])]
    ELSE IF topic[2] \in {"wheel_left", "wheel_right"}
    THEN [op |-> "turn_wheel", command |-> 1, reg |-> 68]
    ELSE [op |-> "press_key", command |-> 1,
          reg |-> CASE topic[2] = "1" -> 9 [] topic[2] = "2" -> 10 [] topic[2] = "3" -> 11]

\* the value bytes of a frame carry what the command asks for: the payload
\* (its 16-bit pattern), the key press 1, the wheel sentinel
CarriesValue(frame, topic, payload) ==
    IF topic[1] = "setting"
    THEN frame[6] * 16384 + frame[7] * 128 + frame[8] = payload % 65536
    ELSE IF topic[2] = "wheel_left" THEN SubSeq(frame, 6, 8) = << 3, 127, 127 >>
    ELSE SubSeq(frame, 6, 8) = << 0, 0, 1 >>

\* C13: every recognised inbound command with an integer payload causes
\* exactly one guarded write exchange with the routed target: a setting topic
\* writes the payload to the system register of the settings table, key 1, 2,
\* 3 press front-panel registers 0x09, 0x0A, 0x0B with value 1, the wheel
\* topics turn the wheel on register 0x44; no command reaches two operations.
C13_OneRoutedWrite ==
    (call.fn = "on_mqtt_message" /\ ret.done /\ call.payload.isInt /\ Recognised(call.topic)) =>
        LET t == Target(call.topic)
        IN  /\ Len(ret.frames) <= 1
            /\ mqttPc \in {"cmd", "idle", "raised"}
            /\ mqttPc = "cmd" => cmd.op = t.op
            /\ mqttPc = "idle" => Len(ret.frames) = 1
            /\ \A i \in DOMAIN ret.frames :
                  LET f == ret.frames[i]
                  IN  /\ Len(f) = 9
                      /\ f[1] = 129 /\ f[2] = t.command
                      /\ f[3] * 16384 + f[4] * 128 + f[5] = t.reg
                      /\ CarriesValue(f, call.topic, call.payload.val)
            /\ xch["mqtt"] = "written" =>
                  /\ serial_lock = "mqtt"
                  /\ ret.frames = << wire.request >>

\* set/setting/heat_curve 21: one frame to system register 0, acknowledged
C13_HeatCurveWritten ==
    /\ call.fn = "on_mqtt_message"
    /\ call.topic = << "setting", "heat_curve" >>
    /\ call.payload = IntPayload(21)
    /\ mqttPc = "idle" /\ serial_lock = "free"
    /\ ret.frames = << << 129, 3, 0, 0, 0, 0, 0, 21, 21 >> >>
    /\ ret.returned = Value(TRUE)

\* C14: write_setting, press_key and turn_wheel return true if and only if
\* the read after the write yields exactly one byte and that byte is the echo
\* address 0x01; an empty read (timeout) or any other byte yields false.
C14_TrueIffEcho ==
    ~ret.returned.absent =>
        /\ ret.returned.val \in BOOLEAN
        /\ ret.returned.val <=> (Len(ret.frames) = 1 /\ ret.response = << 1 >>)
        /\ ret.response = << >> => ~ret.returned.val

\* a key press answered with the pump's own address: false
C14_WrongEchoByte ==
    /\ call.fn = "on_mqtt_message"
    /\ call.topic = << "key", "2" >>
    /\ ret.response = << 129 >>
    /\ ret.returned = Value(FALSE)
    /\ mqttPc = "idle"

(***************************************************************************)
(* Request frames on their own: every operation, registers and values at   *)
(* the borders of the 7-bit groups                                         *)
(***************************************************************************)
\* the command byte each reader passes to read_register
ReadCommand(reader) ==
    CASE reader = "read_sensor" -> READ_SYSTEM_REGISTER
      [] reader = "read_led_state" -> READ_FRONT_PANEL
      [] reader = "read_display_line" -> READ_DISPLAY
      [] reader = "read_setting" -> READ_SYSTEM_REGISTER

FrameRegs == {0, 1, 9, 68, 127, 128, 510, 16383, 16384, 65535}

FrameCalls ==
    { [fn |-> r, reg |-> a] : r \in Readers, a \in FrameRegs }
    \cup { [fn |-> "write_setting", reg |-> a, value |-> v] :
             a \in FrameRegs, v \in CommandInts }
    \cup { [fn |-> "press_key", reg |-> a] : a \in FrameRegs }
    \cup { [fn |-> "turn_wheel", direction |-> d] : d \in {"left", "right"} }

\* the bytes the operation hands to ser.write
RequestOf(c) ==
    CASE c.fn \in Readers -> build_request(PUMP_ADDRESS, ReadCommand(c.fn), c.reg)
      [] c.fn = "write_setting" -> write_setting(c.reg, c.value)
      [] c.fn = "press_key" -> press_key(c.reg)
      [] c.fn = "turn_wheel" -> turn_wheel(c.direction)

InitFrame ==
    /\ Backdrop /\ TimeInit
    /\ total_power_w = 0
    /\ energy_total = FZero
    /\ energy_file = None
    /\ registers = {}
    /\ call \in FrameCalls
    /\ ret = [done |-> FALSE]

\* the operation has assembled its packet
FrameBuilt ==
    /\ call \in FrameCalls
    /\ ~ret.done
    /\ ret' = [done |-> TRUE, frame |-> RequestOf(call)]
    /\ UNCHANGED << serialVars, mainVars, energyVars, dispVars, mqttVars, envVars,
                    obsVars, timeVars, call >>

NextFrame == FrameBuilt

SpecFrame == InitFrame /\ [][NextFrame]_vars

\* XOR of the bytes of f at the given positions, taken in that order
RECURSIVE XorInOrder(_, _)
XorInOrder(f, order) ==
    IF order = << >> THEN 0
    ELSE BitXor(XorInOrder(f, SubSeq(order, 1, Len(order) - 1)), f[order[Len(order)]])

\* C15: every request frame put on the serial channel by any operation is
\* exactly 9 bytes [0x81, command, reg0, reg1, reg2, val0, val1, val2,
\* checksum] whose last byte is the XOR of bytes 2..7; read requests carry the
\* value bytes 0,0,0; the checksum is the same in whatever order the six
\* bytes are XOR-ed.
C15_FrameShape ==
    ret.done =>
        LET f == ret.frame
        IN  /\ Len(f) = 9
            /\ \A i \in 1..9 : f[i] \in 0..255
            /\ f[1] = 129
            /\ f[2] = (CASE call.fn \in {"read_sensor", "read_setting"} -> 2
                         [] call.fn = "read_led_state" -> 0
                         [] call.fn = "read_display_line" -> 32
                         [] call.fn = "write_setting" -> 3
                         [] call.fn \in {"press_key", "turn_wheel"} -> 1)
            /\ f[9] = XorInOrder(f, << 3, 4, 5, 6, 7, 8 >>)
            /\ f[9] = XorInOrder(f, << 8, 7, 6, 5, 4, 3 >>)
            /\ f[9] = XorInOrder(f, << 5, 8, 3, 7, 4, 6 >>)
            /\ call.fn \in Readers => SubSeq(f, 6, 8) = << 0, 0, 0 >>

\* read_sensor of register 0x01FE
C15_SensorRequest ==
    /\ ret.done
    /\ call = [fn |-> "read_sensor", reg |-> 510]
    /\ ret.frame = << 129, 2, 0, 3, 126, 0, 0, 0, 125 >>

(***************************************************************************)
(* encode_register on its own: every 16-bit address                        *)
(***************************************************************************)
Addresses == 0 .. 65535

InitAddress ==
    /\ Backdrop /\ TimeInit
    /\ total_power_w = 0
    /\ energy_total = FZero
    /\ energy_file = None
    /\ registers = {}
    /\ call \in { [fn |-> "encode_register", reg_addr |-> a] : a \in Addresses }
    /\ ret = [done |-> FALSE]

AddressEncoded ==
    /\ call.fn = "encode_register"
    /\ ~ret.done
    /\ ret' = [done |-> TRUE, bytes |-> encode_register(call.reg_addr)]
    /\ UNCHANGED << serialVars, mainVars, energyVars, dispVars, mqttVars, envVars,
                    obsVars, timeVars, call >>

NextAddress == AddressEncoded

SpecAddress == InitAddress /\ [][NextAddress]_vars

\* C16: encode_register splits an address into the groups (addr>>14)&0x3,
\* (addr>>7)&0x7F, addr&0x7F, each byte below 0x80, and the split is lossless
\* for every address in [0, 0x3FFF] and every 16-bit address:
\* (b0<<14)|(b1<<7)|b2 gives the address back.
C16_SplitLossless ==
    ret.done =>
        LET b == ret.bytes
            a == call.reg_addr
        IN  /\ Len(b) = 3
            /\ \A i \in 1..3 : b[i] \in 0..127
            /\ b[1] = BitAnd(a \div 16384, 3)
            /\ b[2] = BitAnd(a \div 128, 127)
            /\ b[3] = BitAnd(a, 127)
            /\ b[1] * 16384 + b[2] * 128 + b[3] = a

\* 0xFFFF splits into 3, 0x7F, 0x7F
C16_TopAddress ==
    /\ ret.done
    /\ call.reg_addr = 65535
    /\ ret.bytes = << 3, 127, 127 >>

(***************************************************************************)
(* The register decoders on their own: every signed 16-bit value, frames   *)
(* with the upper bits set, short frames                                   *)
(***************************************************************************)
SignedValues == (0 - 32768) .. 32767

\* the 5-byte answer carrying the 16-bit pattern of v in three 7-bit groups
PatternFrame(v) ==
    LET p == v % 65536
        b1 == p \div 16384
        b2 == (p \div 128) % 128
        b3 == p % 128
    IN  << PC_ADDRESS, b1, b2, b3, BitXor(b1, BitXor(b2, b3)) >>

\* answers outside the 16-bit patterns: bit 16 set, top bits set, too short
OtherFrames ==
    { << PC_ADDRESS, b1, b2, 5, 0 >> : b1 \in {4, 7, 127, 128, 255}, b2 \in {0, 129} }
    \cup { << >>, << PC_ADDRESS >>, << PC_ADDRESS, 0, 1, 2 >> }

InitDecode ==
    /\ Backdrop /\ TimeInit
    /\ total_power_w = 0
    /\ energy_total = FZero
    /\ energy_file = None
    /\ registers = {}
    /\ call \in { [fn |-> "decode_rego", v |-> v, data |-> PatternFrame(v)] :
                    v \in SignedValues }
             \cup { [fn |-> "decode_rego", v |-> 0, data |-> d] : d \in OtherFrames }
    /\ ret = [done |-> FALSE]

\* decode_rego_response(data), then decode_rego_value of what it returned
Decoded ==
    /\ call.fn = "decode_rego"
    /\ ~ret.done
    /\ LET raw == decode_rego_response(call.data)
       IN  ret' = [done |-> TRUE, raw |-> raw,
                   value |-> IF raw.raised THEN None
                             ELSE Value(decode_rego_value(raw.val))]
    /\ UNCHANGED << serialVars, mainVars, energyVars, dispVars, mqttVars, envVars,
                    obsVars, timeVars, call >>

NextDecode == Decoded

SpecDecode == InitDecode /\ [][NextDecode]_vars

\* C17: for every signed 16-bit value v, a 5-byte response whose bytes 1..3
\* carry the 16-bit pattern of v in three 7-bit groups decodes back to v:
\* decode_rego_response reassembles the 21 bits (minus 0x20000 when bit 16 is
\* set) and the two's-complement folding yields v, the physical value v/10;
\* decode_rego_response fails on an input shorter than 5 bytes.
C17_RoundTrip ==
    ret.done =>
        LET d == call.data
        IN  /\ Len(d) < 5 <=> ret.raw.raised
            /\ Len(d) >= 5 =>
                  LET bits == BitAnd(d[2], 127) * 16384 + BitAnd(d[3], 127) * 128
                              + BitAnd(d[4], 127)
                  IN  ret.raw.val = IF BitAnd(bits, 65536) # 0 THEN bits - 131072 ELSE bits
            /\ d = PatternFrame(call.v) =>
                  /\ ret.raw.val \in 0..65535
                  /\ ret.value = Value([num |-> call.v, den |-> 10])

\* the pattern of -50 (0xFFCE) decodes to -50 tenths: -5.0
C17_MinusFive ==
    /\ ret.done
    /\ call.data = << 1, 3, 127, 78, 50 >>
    /\ ret.raw = Returned(65486)
    /\ ret.value = Value([num |-> 0 - 50, den |-> 10])

(***************************************************************************)
(* decode_display_response on its own                                      *)
(***************************************************************************)
\* "HELLO"
Hello == << 72, 69, 76, 76, 79 >>

\* texts on a display row (code points): empty, HELLO, padded with spaces,
\* with the 0xDF glyph, with filler inside, only spaces, tab and no-break
\* space around a letter, a full row
RowTexts ==
    { << >>, Hello, << 32, 72, 73, 32 >>, << 50, 49, 223, 67 >>, << 65, 255, 66 >>,
      << 32, 32 >>, << 9, 65, 160 >>, [i \in 1..20 |-> 65], << 223 >>,
      << 88, 32, 89 >>, << 255, 255, 65 >> }

\* the same answer with bits set in the upper nibble of every data byte
UpperNibbles(frame) ==
    [i \in DOMAIN frame |-> IF i >= 2 /\ i <= 41 THEN frame[i] + 48 ELSE frame[i]]

RowAnswers ==
    LET good == { DisplayFrame(t) : t \in RowTexts }
    IN  good
        \cup { UpperNibbles(f) : f \in good }
        \cup { << h >> \o Tail(f) : h \in {0, PUMP_ADDRESS}, f \in good }
        \cup { SubSeq(f, 1, 41) : f \in good }
        \cup { Append(f, 0) : f \in good }
        \cup { << >>, << PC_ADDRESS >> }

InitRow ==
    /\ Backdrop /\ TimeInit
    /\ total_power_w = 0
    /\ energy_total = FZero
    /\ energy_file = None
    /\ registers = {}
    /\ call \in { [fn |-> "decode_display_response", data |-> d] : d \in RowAnswers }
    /\ ret = [done |-> FALSE]

RowDecoded ==
    /\ call.fn = "decode_display_response"
    /\ ~ret.done
    /\ ret' = [done |-> TRUE, out |-> decode_display_response(call.data)]
    /\ UNCHANGED << serialVars, mainVars, energyVars, dispVars, mqttVars, envVars,
                    obsVars, timeVars, call >>

NextRow == RowDecoded

SpecRow == InitRow /\ [][NextRow]_vars

\* the 20 character codes of a 42-byte answer, pair by pair
PairCodes(d) == [k \in 1..20 |-> BitAnd(d[2 * k], 15) * 16 + BitAnd(d[2 * k + 1], 15)]

NotFiller(c) == c # 255

Glyphs(d) ==
    LET kept == SelectSeq(PairCodes(d), NotFiller)
    IN  [i \in DOMAIN kept |-> IF kept[i] = 223 THEN 176 ELSE kept[i]]

Blank == {9, 10, 11, 12, 13, 28, 29, 30, 31, 32, 133, 160}

\* s from its first to its last non-blank character
Trimmed(s) ==
    LET solid == { i \in DOMAIN s : s[i] \notin Blank }
    IN  IF solid = {} THEN << >>
        ELSE SubSeq(s, CHOOSE i \in solid : \A j \in solid : i <= j,
                       CHOOSE i \in solid : \A j \in solid : i >= j)

\* C18: decode_display_response fails when the length is not 42 or byte 0 is
\* not 0x01; otherwise it yields one character per nibble pair at offsets
\* 1..40, code = ((d[i] & 0x0F) << 4) | (d[i+1] & 0x0F), drops the filler
\* 0xFF, maps 0xDF to the degree sign and trims surrounding whitespace; an
\* all-filler answer decodes to the empty string and "HELLO" followed by
\* filler to "HELLO".
C18_DisplayDecoding ==
    ret.done =>
        LET d == call.data
        IN  /\ ret.out.raised <=> (Len(d) # 42 \/ d[1] # 1)
            /\ ~ret.out.raised => ret.out.val = Trimmed(Glyphs(d))
            /\ d = << 1 >> \o [i \in 1..40 |-> 15] \o << 0 >> => ret.out = Returned(<< >>)
            /\ d = << 1, 4, 8, 4, 5, 4, 12, 4, 12, 4, 15 >> \o [i \in 1..30 |-> 15] \o << 0 >>
                  => ret.out = Returned(Hello)

\* HELLO followed by filler decodes to HELLO
C18_HelloDecoded ==
    /\ ret.done
    /\ call.data = << 1, 4, 8, 4, 5, 4, 12, 4, 12, 4, 15 >> \o [i \in 1..30 |-> 15] \o << 0 >>
    /\ ret.out = Returned(Hello)

\* C19: turn_wheel sends a WRITE_FRONT_PANEL frame to register 0x0044 whose
\* value bytes come from the sentinel 0x1FFFFF for left and 0x000001 for
\* right (left = 0x03, 0x7F, 0x7F; right = 0x00, 0x00, 0x01); for any other
\* direction it returns false without acquiring the guard or writing to the
\* channel.
C19_WheelFrames ==
    (call.fn = "turn_wheel" /\ ret.done) =>
        IF call.direction \in {"left", "right"}
        THEN /\ Len(ret.frames) <= 1
             /\ mqttPc = "idle" => Len(ret.frames) = 1
             /\ \A i \in DOMAIN ret.frames :
                   ret.frames[i] = IF call.direction = "left"
                                   THEN << 129, 1, 0, 0, 68, 3, 127, 127, 71 >>
                                   ELSE << 129, 1, 0, 0, 68, 0, 0, 1, 69 >>
             /\ xch["mqtt"] = "written" => serial_lock = "mqtt"
        ELSE /\ ret.returned = Value(FALSE)
             /\ ret.frames = << >>
             /\ serial_lock = "free" /\ wire = Idle
             /\ xch["mqtt"] = "none" /\ mqttPc = "idle"

\* the wheel turned left and acknowledged
C19_LeftTurn ==
    /\ call = [fn |-> "turn_wheel", direction |-> "left"]
    /\ ret.frames = << << 129, 1, 0, 0, 68, 3, 127, 127, 71 >> >>
    /\ ret.returned = Value(TRUE)

\* a direction that is neither left nor right: false, nothing written
C19_UpRejected ==
    /\ call = [fn |-> "turn_wheel", direction |-> "up"]
    /\ ret.done /\ ret.returned = Value(FALSE) /\ ret.frames = << >>

(***************************************************************************)
(* The full update of monitor_loop, sweep after sweep: the main thread     *)
(* from its start, with every read of a sweep answered, failing with a     *)
(* SerialException or failing with another exception; ret keeps the items  *)
(* the running sweep has dealt with                                        *)
(***************************************************************************)
\* full sweeps the main loop starts
MaxRounds == 2

Entry(cat, idx, outcome) == [cat |-> cat, idx |-> idx, outcome |-> outcome]

SweepLogged == sweeps >= 1

SerialErrorLogged == \E i \in DOMAIN ret.attempts : ret.attempts[i].outcome = "serial"

Logged(outcome) ==
    /\ ret' = [ret EXCEPT !.attempts = Append(@, Entry(mainS.cat, mainS.idx, outcome))]
    /\ UNCHANGED call

\* if now - last_full_update >= interval: the sweep begins with
\* publish_map(SENSOR_MAP, ...)
SweepBegin ==
    /\ SweepStart(MaxRounds)
    /\ ret' = [attempts |-> << >>,
               earlier |-> SweepLogged /\ (ret.earlier \/ SerialErrorLogged)]
    /\ UNCHANGED call

\* value = read_func(ser, reg) returns and the value is published
SweepRead == ItemRead /\ Logged("read")

\* except serial.SerialException: break
SweepSerialError == ItemSerialError /\ Logged("serial")

\* the read has returned and the publish of the item raises an exception
\* other than SerialException
SweepItemError ==
    /\ mainPc = "item"
    /\ LET pos == AfterItemError(mainS.cat, mainS.idx)
       IN  /\ ReadStep("main", XchOf(pos))
           /\ MainMove(pos)
    /\ total_power_w' = IF mainS.cat = 4 THEN 0 ELSE total_power_w
    /\ Logged("error")
    /\ UNCHANGED << power_vals, sweeps, energyVars, dispVars, mqttVars, envVars,
                    obsVars, timeVars >>

NextSweep ==
    \/ MainWillSet \/ MainConnect \/ MainSubscribe \/ MainPublishOnline
    \/ MainLoopStart \/ MainStartDisplay
    \/ MainLoopTop \/ SweepBegin \/ MainSweepSkip
    \/ MainSend \/ SweepRead \/ SweepSerialError \/ SweepItemError \/ MainEnergy

SpecSweep == Init /\ [][NextSweep]_vars

\* the categories whose items are read one by one, in the order of the sweep
ReadCategories == << 1, 2, 3, 4, 6 >>

\* the categories of publish_map and of the settings loop
MapCategories == {1, 2, 3, 6}

FirstItem(cat) == [cat |-> cat, idx |-> 1]

\* the position of the main thread once category cat is over: the first item
\* of the category that follows; the energy block stands between the power
\* reads and the settings; the top of the while loop after the settings
CategoryOver(cat) ==
    IF cat \in {1, 2, 3}
    THEN mainPc = "item" /\ mainS = FirstItem(cat + 1)
    ELSE IF cat = 4
    THEN mainPc = "energy" \/ (mainPc = "item" /\ mainS = FirstItem(6))
    ELSE mainPc \in {"loop_top", "sweep_check"}

FollowingCategory(cat) == IF cat = 4 THEN 6 ELSE cat + 1

ItemOf(e) == [cat |-> e.cat, idx |-> e.idx]

\* the item after e in the order of the sweep, if e is not the last one
IsLastItem(e) == e.cat = 6 /\ e.idx = NSettings

ItemAfter(e) ==
    IF e.idx < CatLen(e.cat) THEN [cat |-> e.cat, idx |-> e.idx + 1]
    ELSE FirstItem(FollowingCategory(e.cat))

\* the main thread stands at item it, or at the energy block before the
\* first setting
StandsBefore(it) ==
    \/ mainPc = "item" /\ mainS = it
    \/ mainPc = "energy" /\ it = FirstItem(6)

\* C20: a SerialException while reading item k of a sweep category stops the
\* reads of the remaining items of that category in this sweep only: no later
\* item of the category is read in the sweep, the sweep goes on with the first
\* item of the following category (after the settings, with the top of the
\* while loop), the main loop is not left, and every sweep, also the one after
\* a sweep with a SerialException, begins with the first item of the first
\* category.  Another exception at an item of publish_map or of the settings
\* loop skips that item only: the sweep goes on with the next item in order.
C20_SerialErrorEndsCategoryOnly ==
    SweepLogged =>
        LET A == ret.attempts
        IN  /\ mainPc \in {"loop_top", "sweep_check", "item", "energy"}
            /\ IF A = << >>
               THEN mainPc = "item" /\ mainS = FirstItem(1)
               ELSE ItemOf(A[1]) = FirstItem(1)
            /\ \A i \in DOMAIN A :
                  /\ A[i].outcome = "serial" =>
                        /\ \A j \in DOMAIN A : j > i => A[j].cat # A[i].cat
                        /\ IF i < Len(A)
                           THEN ItemOf(A[i + 1]) = FirstItem(FollowingCategory(A[i].cat))
                           ELSE CategoryOver(A[i].cat)
                  /\ (A[i].outcome = "error" /\ A[i].cat \in MapCategories) =>
                        IF i < Len(A) THEN ItemOf(A[i + 1]) = ItemAfter(A[i])
                        ELSE IF IsLastItem(A[i]) THEN CategoryOver(6)
                        ELSE StandsBefore(ItemAfter(A[i]))

\* the first of the two settings failed with a SerialException in an earlier
\* sweep and fails again in this one: the second setting was not read, the
\* sweep before this failure read the sensor, skipped the binary sensor on
\* another exception and went on, and the main loop is at its top again
C20_SecondSweepAfterFailure ==
    /\ SweepLogged /\ sweeps = MaxRounds /\ ret.earlier
    /\ mainPc = "loop_top"
    /\ Len(ret.attempts) >= 4
    /\ ret.attempts[1] = Entry(1, 1, "read")
    /\ ret.attempts[2] = Entry(2, 1, "error")
    /\ ret.attempts[3].cat = 3
    /\ ret.attempts[Len(ret.attempts)] = Entry(6, 1, "serial")

(***************************************************************************)
(* display_monitor taken alone: pass after pass over the display rows,     *)
(* every read answered with a row text, not answered, or failing; ret      *)
(* keeps what the loop has published                                       *)
(***************************************************************************)
\* texts the display shows on a row: "A", "B", "A" followed by a space, and
\* an empty row
ShownTexts == { << 65 >>, << 66 >>, << 65, 32 >>, << >> }

\* what ser.read(42) returns: a row, nothing within the timeout, or a row
\* under another address
ShownResponses ==
    { DisplayFrame(t) : t \in ShownTexts }
    \cup { << >>, << PUMP_ADDRESS >> \o Tail(DisplayFrame(<< 66 >>)) }

DisplayErrors == {"serial", "other"}

NoStep == [row |-> 0]

InitDisplay ==
    /\ serial_lock = "free" /\ ser_open = TRUE /\ wire = Idle /\ torn = FALSE
    /\ xch = [t \in Threads |-> IF t = "display" THEN "wait" ELSE "none"]
    /\ mainPc = "loop_top"
    /\ mainS = [cat |-> 0, idx |-> 0]
    /\ power_vals = << >>
    /\ sweeps = 0
    /\ total_power_w = 0
    /\ energy_total = FZero
    /\ energy_file = None
    /\ dispPc = "row"
    /\ dispRow = 1
    /\ last_display = [r \in 1..NRows |-> None]
    /\ InitSessionUp /\ ObsInit /\ TimeInit
    /\ pump_size = PUMP_SIZE_KW
    /\ registers = {}
    /\ call = [fn |-> "display_monitor"]
    /\ ret = [last |-> [r \in 1..NRows |-> None],
              seen |-> [r \in 1..NRows |-> FALSE],
              twice |-> FALSE,
              errors |-> {},
              step |-> NoStep]

\* new_value = read_display_line(ser, row_addr) returns; mqtt_publish is
\* called with the text when the row is published
DisplayRead ==
    \E resp \in ShownResponses :
        LET value == read_register(resp, DISPLAY_RESPONSE_LEN, "display")
            before == last_display[dispRow]
            sent == DisplayPublishes(before, value)
        IN  /\ RowRead(resp)
            /\ ret' = [ret EXCEPT
                          !.last[dispRow] = IF sent THEN value ELSE @,
                          !.seen[dispRow] = @ \/ ~value.absent,
                          !.twice = @ \/ (sent /\ ret.last[dispRow] = value),
                          !.step = [row |-> dispRow, value |-> value, before |-> before,
                                    after |-> last_display'[dispRow], sent |-> sent]]
            /\ UNCHANGED call

\* the pass is left with an exception
DisplayError ==
    \E kind \in DisplayErrors :
        /\ RowError(kind)
        /\ ret' = [ret EXCEPT !.errors = @ \cup {kind}]
        /\ UNCHANGED call

NextDisplay == DispSend \/ DisplayRead \/ DisplayError \/ DispWake

\* time.sleep returns
SpecDisplay == InitDisplay /\ [][NextDisplay]_vars /\ WF_vars(DispWake)

\* C21: a row text is published exactly when a successful read decodes to a
\* text different from the row's entry of last_display, and the entry then is
\* the published text; a read that does not publish leaves the entry as it
\* was, in particular a failed (absent) read.  No row is published twice in a
\* row with the same text, and once a row was read successfully a text of
\* that row has been published; the entry of every row is the text last
\* published for it.
C21_PublishedOnChangeOnly ==
    /\ ret.step # NoStep =>
          LET st == ret.step
          IN  /\ st.sent <=> (~st.value.absent /\ st.value # st.before)
              /\ st.after = (IF st.sent THEN st.value ELSE st.before)
              /\ st.value.absent => (~st.sent /\ st.after = st.before)
    /\ ~ret.twice
    /\ \A r \in 1..NRows :
          /\ ret.seen[r] => ~ret.last[r].absent
          /\ last_display[r] = ret.last[r]

\* the row showed "A" and was published; now it was read again with the same
\* text and nothing was published
C21_SameTextSuppressed ==
    /\ ret.step # NoStep
    /\ ret.step.value = Value(<< 65 >>)
    /\ ret.step.before = Value(<< 65 >>)
    /\ ~ret.step.sent
    /\ wire = Idle /\ ret.last[1] = Value(<< 65 >>)

\* a read timed out after the row had been published: nothing published,
\* the entry is kept
C21_FailedReadKeepsEntry ==
    /\ ret.step # NoStep
    /\ ret.step.value = None
    /\ ret.step.before = Value(<< 66 >>)
    /\ ret.step.after = Value(<< 66 >>)

\* C22: the display loop never ends: no exception of a read, SerialException
\* or other, leaves the while loop, and after such an exception the loop
\* sleeps and then starts a new pass with the first row.
C22_DisplayLoopGoesOn ==
    /\ [](dispPc \in {"row", "sleep", "backoff"})
    /\ (dispPc = "backoff") ~> (dispPc = "row" /\ dispRow = 1 /\ xch["display"] = "wait")

\* passes were left with a SerialException and with another exception, and
\* a later pass has read and published the row
C22_PassAfterErrors ==
    /\ ret.errors = DisplayErrors
    /\ dispPc = "sleep"
    /\ ret.step # NoStep /\ ret.step.sent

(***************************************************************************)
(* The full update against the clock: the scheduler of monitor_loop with   *)
(* the sweep taken item by item.  One tick = 0.1 s; a read costs the delay, *)
(* the delay and the serial timeout, or twice that when the read first     *)
(* waits for an exchange of the display thread; the reads of one sweep     *)
(* cost the same.  ret keeps the categories the running sweep has gone     *)
(* through, the cost of its reads and the time.time() at which this sweep  *)
(* and the one before began.                                               *)
(***************************************************************************)
OrderReadTicks == ReadTicks \cup { 2 * (READ_DELAY + TIMEOUT * TICKS_PER_SECOND) }

\* ticks of running time explored
MaxOrderTicks == 400

InitOrder ==
    /\ SerialInit /\ MainInit /\ DispInit /\ MqttInit /\ ObsInit /\ TimeInit
    /\ pump_size = PUMP_SIZE_KW
    /\ registers = {}
    /\ total_power_w = 0
    /\ energy_total = FZero
    /\ energy_file = None
    /\ call = [fn |-> "full_update"]
    /\ ret = [cats |-> << >>, per |-> READ_DELAY, started |-> 0, previous |-> 0]

\* the category joins the record when its first item or block is reached
Reached(cats, cat) ==
    IF cats # << >> /\ cats[Len(cats)] = cat THEN cats ELSE Append(cats, cat)

\* if now - last_full_update >= interval: publish_map(SENSOR_MAP, ...)
OrderStart ==
    /\ tpc = "sweep_check"
    /\ now - last_full_update >= SWEEP_INTERVAL * TICKS_PER_SECOND
    /\ clock - StartClock < MaxOrderTicks
    /\ tpc' = "sweep"
    /\ MainMove(Pos("item", 1, 1))
    /\ \E per \in OrderReadTicks :
          ret' = [cats |-> << >>, per |-> per, started |-> clock, previous |-> ret.started]
    /\ UNCHANGED << serialVars, power_vals, total_power_w, sweeps, energyVars, dispVars,
                    mqttVars, envVars, obsVars, clock, now, last_heartbeat,
                    last_full_update, last_energy_update, last_energy_save, hbPrev,
                    hbLast, call >>

\* where the scheduler stands once the sweep stands at pos: after the last
\* setting last_full_update = now, then time.sleep(0.1)
OrderMove(pos) ==
    /\ MainMove(pos)
    /\ IF pos.pc = "loop_top"
       THEN tpc' = "sleep" /\ last_full_update' = now
       ELSE UNCHANGED << tpc, last_full_update >>

\* one read of the sweep: answered, timed out, or ended by a SerialException
OrderRead ==
    /\ tpc = "sweep" /\ mainPc = "item"
    /\ \E failed \in BOOLEAN :
          /\ clock' = clock + ret.per
          /\ OrderMove(IF failed THEN AfterSerialError(mainS.cat, mainS.idx)
                       ELSE NextItem(mainS.cat, mainS.idx))
    /\ ret' = [ret EXCEPT !.cats = Reached(@, mainS.cat)]
    /\ UNCHANGED << serialVars, power_vals, total_power_w, sweeps, energyVars, dispVars,
                    mqttVars, envVars, obsVars, now, last_heartbeat,
                    last_energy_update, last_energy_save, hbPrev, hbLast, call >>

\* the energy block between the power reads and the settings
OrderEnergy ==
    /\ tpc = "sweep" /\ mainPc = "energy"
    /\ EnergyBlock(total_power_w, clock, TRUE)
    /\ OrderMove(Pos("item", 6, 1))
    /\ ret' = [ret EXCEPT !.cats = Reached(@, mainS.cat)]
    /\ UNCHANGED << serialVars, power_vals, total_power_w, sweeps, dispVars, mqttVars,
                    envVars, obsVars, clock, now, last_heartbeat, hbPrev, hbLast, call >>

OrderSleep == Sleep(MaxOrderTicks)

NextOrder ==
    TimeHeartbeat \/ OrderStart \/ OrderRead \/ OrderEnergy \/ TimeNoSweep \/ OrderSleep

SpecOrder == InitOrder /\ [][NextOrder]_vars

\* the order of the full update: sensors, binary sensors, LEDs, power,
\* energy, settings
SweepOrder == << "sensor", "binary", "led", "power", "energy", "setting" >>

Named(cats) == [i \in DOMAIN cats |-> CatNames[cats[i]]]

SweepRunning == tpc = "sweep"

SweepOver == tpc \in {"sleep", "top", "sweep_check"} /\ ret.started > 0

\* C23: in every full sweep the categories are gone through in the order
\* sensors, binary sensors, LEDs, power, energy, settings: what the sweep
\* has gone through is always a beginning of that order, the item at hand
\* belongs to the category that comes next or to the last one gone through,
\* a finished sweep has gone through all six, and two consecutive sweeps
\* begin at least the sweep interval (15 s) apart.
C23_FixedOrderAndSpacing ==
    /\ Named(ret.cats) = SubSeq(SweepOrder, 1, Len(ret.cats))
    /\ SweepRunning =>
          /\ mainS.cat \in {Len(ret.cats), Len(ret.cats) + 1}
          /\ CatNames[mainS.cat] = SweepOrder[mainS.cat]
    /\ SweepOver => Named(ret.cats) = SweepOrder
    /\ ret.previous > 0 =>
          ret.started - ret.previous >= SWEEP_INTERVAL * TICKS_PER_SECOND

\* a sweep that took longer than the interval (the reads waited and timed
\* out) is over, and the next one has begun in the same second with the
\* sensors, 15 s or more after the first began
C23_BackToBackSweeps ==
    /\ SweepRunning /\ ret.previous > 0
    /\ ret.cats = << >> /\ mainS = [cat |-> 1, idx |-> 1]
    /\ ret.started - ret.previous > SWEEP_INTERVAL * TICKS_PER_SECOND
    /\ clock - ret.started < TICKS_PER_SECOND

(***************************************************************************)
(* The periodic save: energy blocks of successive sweeps against the       *)
(* clock, the write of the file succeeding or failing; ret keeps the last  *)
(* two saves and what the file holds since                                 *)
(***************************************************************************)
\* seconds of running time explored
MaxSaveSeconds == 1800

\* seconds between the energy blocks of two sweeps
SaveSteps == {150, 300, 600}

NoSave == [at |-> 0]

InitSave ==
    /\ SerialInit /\ MainInit /\ DispInit /\ MqttInit /\ ObsInit /\ TimeInit
    /\ pump_size = PUMP_SIZE_KW
    /\ registers = {}
    /\ total_power_w \in {1000, POWER_VALUES(PUMP_SIZE_KW).compressor}
    /\ energy_file \in {None, Value(2)}
    /\ energy_total = load_energy_total(energy_file)
    /\ call = [fn |-> "energy_save"]
    /\ ret = [saves |-> 0, last |-> NoSave, prev |-> NoSave, disk |-> energy_file]

\* one pass through lines 938-947, dt seconds after the previous one; a save
\* shows in last_energy_save
SaveSweep ==
    /\ call.fn = "energy_save"
    /\ \E dt \in SaveSteps : \E ok \in BOOLEAN :
          /\ clock - StartClock + dt * TICKS_PER_SECOND
                <= MaxSaveSeconds * TICKS_PER_SECOND
          /\ clock' = clock + dt * TICKS_PER_SECOND
          /\ EnergyBlock(total_power_w, clock + dt * TICKS_PER_SECOND, ok)
          /\ ret' = IF last_energy_save' = last_energy_save THEN ret
                    ELSE [saves |-> ret.saves + 1,
                          prev |-> ret.last,
                          last |-> [at |-> last_energy_save',
                                    integrated |-> last_energy_update',
                                    total |-> energy_total',
                                    written |-> ok],
                          disk |-> IF ok THEN Value(Round3(energy_total')) ELSE ret.disk]
    /\ UNCHANGED << serialVars, mainVars, dispVars, mqttVars, envVars, obsVars, now,
                    last_heartbeat, last_full_update, tpc, hbPrev, hbLast, call >>

NextSave == SaveSweep

SpecSave == InitSave /\ [][NextSave]_vars

SaveInterval == ENERGY_SAVE_SECONDS * TICKS_PER_SECOND

\* C24: while running the total is saved at most once per 600 s: two
\* consecutive periodic saves are at least 600 s apart and the first one comes
\* no earlier than 600 s after startup; a periodic save happens in the energy
\* block of a sweep right after the integration, with the total just
\* integrated (the file gets it rounded to three decimals), and between the
\* saves the file is not touched.
C24_SaveAtMostOncePerInterval ==
    /\ ret.last # NoSave =>
          /\ ret.last.at - StartClock >= SaveInterval
          /\ ret.last.integrated = ret.last.at
          /\ ret.last.at = last_energy_save
          /\ ret.last.written => ret.disk = Value(Round3(ret.last.total))
    /\ ret.prev # NoSave => ret.last.at - ret.prev.at >= SaveInterval
    /\ ret.last = NoSave => last_energy_save = StartClock
    /\ energy_file = ret.disk

\* two saves 600 s apart, both written, and a sweep 300 s after the second
\* that integrated without saving
C24_TwoSavesThenNone ==
    /\ ret.saves = 2
    /\ ret.last.written /\ ret.prev.written
    /\ ret.last.at - ret.prev.at = SaveInterval
    /\ last_energy_update = ret.last.at + 300 * TICKS_PER_SECOND
    /\ energy_total # ret.last.total

(***************************************************************************)
(* The guard while the bridge runs: the display loop, the full update and  *)
(* the command callback polling the pump for ever, every read answered,    *)
(* timing out or raising.  The clock stands still, so that the energy      *)
(* block adds nothing.                                                     *)
(***************************************************************************)
InitGuard ==
    /\ serial_lock = "free" /\ ser_open = TRUE /\ wire = Idle /\ torn = FALSE
    /\ xch = [t \in Threads |-> IF t = "display" THEN "wait" ELSE "none"]
    /\ mainPc = "loop_top"
    /\ mainS = [cat |-> 0, idx |-> 0]
    /\ power_vals = << >>
    /\ sweeps = 0
    /\ total_power_w = 0
    /\ energy_total = FZero
    /\ energy_file = None
    /\ dispPc = "row"
    /\ dispRow = 1
    /\ last_display = [r \in 1..NRows |-> None]
    /\ InitSessionUp /\ ObsInit /\ TimeInit /\ FnInit
    /\ pump_size = PUMP_SIZE_KW
    /\ registers \in RegStates

\* the full update begins, sweep after sweep
GuardSweepStart ==
    /\ mainPc = "sweep_check"
    /\ MainMove(Pos("item", 1, 1))
    /\ xch' = [xch EXCEPT !["main"] = "wait"]
    /\ power_vals' = << >>
    /\ UNCHANGED << serial_lock, ser_open, wire, torn, total_power_w, sweeps, energyVars,
                    dispVars, mqttVars, envVars, obsVars, timeVars, fnVars >>

\* the energy block, no time having passed since the last one
GuardEnergy ==
    /\ mainPc = "energy"
    /\ EnergyBlock(total_power_w, clock, TRUE)
    /\ MainMove(Pos("item", 6, 1))
    /\ xch' = [xch EXCEPT !["main"] = "wait"]
    /\ UNCHANGED << serial_lock, ser_open, wire, torn, power_vals, total_power_w,
                    sweeps, dispVars, mqttVars, envVars, obsVars, clock, now,
                    last_heartbeat, last_full_update, tpc, hbPrev, hbLast, fnVars >>

NextGuard ==
    \/ MainLoopTop \/ GuardSweepStart \/ MainSweepSkip
    \/ MainSend \/ MainRead \/ MainSerialError \/ GuardEnergy
    \/ DispSend \/ DispRead \/ DispSerialError \/ DispWake
    \/ OnMqttMessage \/ CmdSend \/ CmdRead \/ CmdSerialError

\* serial_lock.acquire() returns and the request is written, or the write
\* raises
MainEnters == MainSerialError \/ MainSend
DispEnters == DispSerialError \/ DispSend
CmdEnters == CmdSerialError \/ CmdSend

\* ser.read returns, with bytes or after the timeout, or raises
MainLeaves == MainSerialError \/ MainRead
DispLeaves == DispSerialError \/ DispRead
CmdLeaves == CmdSerialError \/ CmdRead

\* a read returns after the timeout at the latest; a thread blocked in
\* serial_lock.acquire() gets the lock if the lock is released again and again
SpecGuard ==
    /\ InitGuard
    /\ [][NextGuard]_vars
    /\ WF_vars(MainLeaves) /\ WF_vars(DispLeaves) /\ WF_vars(CmdLeaves)
    /\ SF_vars(MainEnters) /\ SF_vars(DispEnters) /\ SF_vars(CmdEnters)

C26_GuardFreeBetweenExchanges ==
    /\ (\A t \in Threads : xch[t] # "written") => serial_lock = "free"
    /\ \A t \in Threads : serial_lock = t => xch[t] = "written"

\* the write of a command raised inside the guard and ended the callback;
\* the display loop has taken the guard since and its exchange is open
C26_ExchangeAfterFailedCommand ==
    /\ mqttPc = "raised"
    /\ serial_lock = "display" /\ xch["display"] = "written"
    /\ wire.by = "display"

\* C27 as stated: the serial channel is closed only when no exchange is in
\* flight, and no exchange is open on a closed channel: the display loop and
\* the command callback are stopped or kept out by the guard before
\* ser.close().
C27_NoExchangeOnClosedChannel ==
    ~ser_open => \A t \in Threads : xch[t] # "written"

(***************************************************************************)
(* C28: no "online" after the "offline" of the shutdown                    *)
(***************************************************************************)
\* the finally block has published "offline" (l.990 returned)
OfflinePublished == Position(shutLog, "offline") # {}

\* the steps that publish "online": the end of setup_mqtt, the top of the
\* loop (which holds the heartbeat), on_mqtt_connect on the network thread
PublishesOnline == MainPublishOnline \/ MainLoopTop \/ OnMqttConnect

\* C28: once the finally block has published "offline", no step of the
\* bridge publishes "online": neither the heartbeat nor on_mqtt_connect
C28_NoOnlineAfterOffline == [][OfflinePublished => ~PublishesOnline]_vars

(***************************************************************************)
(* C29: the subscription after a disconnect                                *)
(***************************************************************************)
\* C29 as stated: the bridge is subscribed to the command namespace whenever
\* it is connected and has announced "online", and after a disconnect it
\* gets back there: once the connection has dropped, a recognised command
\* can again be delivered to on_mqtt_message and dispatched.
C29_CommandsAfterDisconnect ==
    /\ [](connected /\ avail = "online" => subscribed)
    /\ (drops > 0) ~> CanDeliver

(***************************************************************************)
(* C30: the bytes a read consumes.  The input buffer of the serial port    *)
(* holds what the controller has sent and no read has consumed yet; the    *)
(* controller answers every request, in order, at a time of its own.  The  *)
(* guard serialises the exchanges, so they follow one another here.        *)
(***************************************************************************)
\* exchanges of one run
MaxExchanges == 3

\* sensor registers read in this specification and what the controller holds
StaleRegs == { SENSOR_MAP[1], SENSOR_MAP[3] }

HeldValue(reg) == IF reg = SENSOR_MAP[1] THEN 215 ELSE -50

\* the exchanges: read_sensor of a register, write_setting
Exchanges ==
    { [fn |-> "read_sensor", reg |-> r] : r \in StaleRegs }
    \cup { [fn |-> "write_setting", reg |-> 0] }

\* what the controller sends in reply: the echo byte for a write, a 5-byte
\* frame with the register's value for a read
ControllerReply(x) ==
    IF x.fn = "write_setting" THEN << PC_ADDRESS >> ELSE PatternFrame(HeldValue(x.reg))

\* ser.read(size) on a port opened with timeout=TIMEOUT: size bytes once the
\* buffer holds them, at the timeout the bytes that are there
SerRead(rx, size) == SubSeq(rx, 1, IF Len(rx) < size THEN Len(rx) ELSE size)

NoAnswer == [n |-> 0]

InitStale ==
    /\ Backdrop /\ TimeInit
    /\ total_power_w = 0
    /\ energy_total = FZero
    /\ energy_file = None
    /\ registers = {}
    /\ call = [pending |-> << >>, rx |-> << >>, src |-> << >>]
    /\ ret = [asked |-> << >>, open |-> FALSE, last |-> NoAnswer]

\* with serial_lock: ser.write(request); the controller owes an answer
ExchangeWrite ==
    /\ ~ret.open
    /\ Len(ret.asked) < MaxExchanges
    /\ \E x \in Exchanges :
          ret' = [ret EXCEPT !.asked = Append(@, x), !.open = TRUE]
    /\ call' = [call EXCEPT !.pending = Append(@, Len(ret.asked) + 1)]
    /\ UNCHANGED << serialVars, mainVars, energyVars, dispVars, mqttVars, envVars,
                    obsVars, timeVars >>

\* the controller sends its answer to the oldest request not yet answered;
\* src remembers which request each byte of the buffer answers
ControllerAnswers ==
    /\ call.pending # << >>
    /\ LET n == Head(call.pending)
           bytes == ControllerReply(ret.asked[n])
       IN  call' = [pending |-> Tail(call.pending),
                    rx |-> call.rx \o bytes,
                    src |-> call.src \o [i \in 1..Len(bytes) |-> n]]
    /\ UNCHANGED << serialVars, mainVars, energyVars, dispVars, mqttVars, envVars,
                    obsVars, timeVars, ret >>

\* response = ser.read(expected_length), the guard is released, the checks
\* and the decoding of read_register (the comparison of write_setting)
ExchangeRead ==
    /\ ret.open
    /\ LET n == Len(ret.asked)
           x == ret.asked[n]
           size == IF x.fn = "write_setting" THEN 1 ELSE REG_RESPONSE_LEN
           response == SerRead(call.rx, size)
           k == Len(response)
       IN  /\ ret' = [ret EXCEPT
                        !.open = FALSE,
                        !.last = [n |-> n, fn |-> x.fn, reg |-> x.reg,
                                  result |-> IF x.fn = "write_setting"
                                             THEN Value(AckOk(response))
                                             ELSE read_register(response, size, "rego"),
                                  from |-> { call.src[i] : i \in 1..k }]]
           /\ call' = [call EXCEPT !.rx = SubSeq(@, k + 1, Len(@)),
                                   !.src = SubSeq(@, k + 1, Len(@))]
    /\ UNCHANGED << serialVars, mainVars, energyVars, dispVars, mqttVars, envVars,
                    obsVars, timeVars >>

NextStale == ExchangeWrite \/ ControllerAnswers \/ ExchangeRead

SpecStale == InitStale /\ [][NextStale]_vars

\* C30 as stated: a value that a register read returns for address R was
\* decoded from bytes the controller sent in reply to a request for R: no
\* byte of it answers the request of another exchange for a different
\* register or for a write.
C30_AnswerFromOwnRequest ==
    LET a == ret.last
    IN  (a.n > 0 /\ a.fn = "read_sensor" /\ ~a.result.absent) =>
            \A i \in a.from : ret.asked[i] = ret.asked[a.n]

(***************************************************************************)
(* C31: the accumulator over a run.  Each sweep computes the power (the    *)
(* component states change between sweeps, a read may raise, the profile   *)
(* may lack a label) and runs the energy block some seconds later; the run *)
(* ends with the save of the finally block.  ret keeps what the last sweep *)
(* started from and the last two values published and persisted.           *)
(***************************************************************************)
\* sweeps of one run
MaxAccumSweeps == 3

\* seconds between the energy blocks of two sweeps (a clock that stands
\* still, the sweep interval, the save interval)
AccumSteps == {0, 15, 600}

\* component registers reported as 1 during a sweep
AccumStates == { {}, {510}, {510, 512, 515} }

\* x <= y on the floats of the model
FLeq(x, y) ==
    \/ x.m = << >>
    \/ /\ y.m # << >>
       /\ \/ x.e < y.e
          \/ /\ x.e = y.e
             /\ \/ x.m = y.m
                \/ \E i \in 1..53 : /\ x.m[i] < y.m[i]
                                    /\ \A j \in 1..(i - 1) : x.m[j] = y.m[j]

\* the total a file holds, in thousandths (0 while there is no file)
FileTotal(file) == IF file.absent THEN 0 ELSE file.val

InitAccum ==
    /\ SerialInit /\ MainInit /\ DispInit /\ MqttInit /\ ObsInit /\ TimeInit
    /\ pump_size \in {PUMP_SIZE_KW, 14}
    /\ registers = {}
    /\ total_power_w = 0
    /\ energy_file \in {None, Value(2)}
    /\ energy_total = load_energy_total(energy_file)
    /\ call = [fn |-> "accumulate", pc |-> "power"]
    /\ ret = [sweeps |-> 0, failed |-> FALSE, before |-> energy_total,
              shown |-> Round3(energy_total), shownPrev |-> Round3(energy_total),
              diskPrev |-> energy_file]

\* total_power_w = publish_power_sensors(): the six reads answered from the
\* registers, or an exception on the way (a read raises, a label is missing),
\* which the function turns into 0
AccumPower ==
    /\ call.fn = "accumulate" /\ call.pc = "power"
    /\ ret.sweeps < MaxAccumSweeps
    /\ \E regs \in AccumStates : \E raised \in BOOLEAN :
          LET on == [k \in 1..6 |->
                        IF PowerLookupFails(pump_size, k) THEN None
                        ELSE read_register(
                                RegFrame(IF ComponentRegs[k] \in regs THEN 1 ELSE 0),
                                REG_RESPONSE_LEN, "rego")]
              result == publish_power_sensors(pump_size, on)
          IN  /\ registers' = regs
              /\ total_power_w' = IF raised THEN 0 ELSE result.total
              /\ ret' = [ret EXCEPT !.failed = raised \/ ~result.published]
    /\ call' = [call EXCEPT !.pc = "energy"]
    /\ UNCHANGED << serialVars, mainPc, mainS, power_vals, sweeps, energyVars, dispVars,
                    mqttVars, pump_size, obsVars, timeVars >>

\* lines 938-947 of the same sweep, dt seconds after the previous block, and
\* the publish of round(energy_total_kwh, 3)
AccumEnergy ==
    /\ call.fn = "accumulate" /\ call.pc = "energy"
    /\ \E dt \in AccumSteps : \E ok \in BOOLEAN :
          /\ clock' = clock + dt * TICKS_PER_SECOND
          /\ EnergyBlock(total_power_w, clock + dt * TICKS_PER_SECOND, ok)
    /\ ret' = [ret EXCEPT !.sweeps = @ + 1,
                          !.before = energy_total,
                          !.shownPrev = ret.shown,
                          !.shown = Round3(energy_total'),
                          !.diskPrev = energy_file]
    /\ call' = [call EXCEPT !.pc = "power"]
    /\ UNCHANGED << serialVars, mainVars, dispVars, mqttVars, envVars, obsVars, now,
                    last_heartbeat, last_full_update, tpc, hbPrev, hbLast >>

\* KeyboardInterrupt between two sweeps: save_energy_total(energy_total_kwh)
\* of the finally block
AccumShutdown ==
    /\ call.fn = "accumulate" /\ call.pc = "power"
    /\ \E ok \in BOOLEAN :
          energy_file' = save_energy_total(energy_file, energy_total, ok)
    /\ ret' = [ret EXCEPT !.diskPrev = energy_file]
    /\ call' = [call EXCEPT !.pc = "done"]
    /\ UNCHANGED << serialVars, mainVars, energy_total, dispVars, mqttVars, envVars,
                    obsVars, timeVars >>

NextAccum == AccumPower \/ AccumEnergy \/ AccumShutdown

SpecAccum == InitAccum /\ [][NextAccum]_vars

\* C31: the accumulator never decreases during a run: the wattage is never
\* negative, every energy block leaves the total at or above where it found
\* it, each published energy/total value (the total rounded to three
\* decimals) and each persisted total is at least the one before it, and a
\* sweep whose power computation failed integrates with 0 W: it adds
\* nothing and still sets the last-integration timestamp to the current time.
C31_AccumulatorNeverDecreases ==
    /\ total_power_w >= 0
    /\ FLeq(ret.before, energy_total)
    /\ ret.shownPrev <= ret.shown
    /\ FileTotal(ret.diskPrev) <= FileTotal(energy_file)
    /\ ret.failed => total_power_w = 0
    /\ (ret.failed /\ call.pc # "energy") => energy_total = ret.before
    /\ last_energy_update = clock

\* a sweep that added to the total and saved it, then a sweep whose power
\* computation failed 15 s later: the same total published again, the file
\* untouched, the timestamp advanced
C31_FailedSweepAfterSave ==
    /\ call.pc = "power" /\ ret.sweeps = 2 /\ ret.failed
    /\ registers # {} /\ pump_size = PUMP_SIZE_KW
    /\ ret.shown = ret.shownPrev /\ ret.shown > 2
    /\ energy_file = Value(ret.shown) /\ ret.diskPrev = energy_file
    /\ last_energy_update = clock
    /\ last_energy_update = last_energy_save + 15 * TICKS_PER_SECOND

=============================================================================
